---- MODULE Spec2Model ----
(***************************************************************************)
(* cc-dice: the decision engine (slot registry, per-(slot,session) state   *)
(* files, cooldown markers, accumulator dice count, single-slot check and  *)
(* the shared roll pool of checkAllSlots).                                 *)
(*                                                                         *)
(* The state directory is one map from file name to content; state files   *)
(* and cooldown markers live in it side by side, named as the code names   *)
(* them (string concatenation).  Math.random is the nondeterministic       *)
(* choice of the rolls.  The transcript is an external input: a context    *)
(* with a transcript path carries the exchange count countExchanges would  *)
(* return for it.                                                          *)
(***************************************************************************)
EXTENDS Integers, Sequences, FiniteSets, TLC

VARIABLES
    slots,      \* slots.json: the registered configs, in insertion order
    files,      \* {baseDir}/state: file name -> content
    last        \* the API call that has just returned (inputs, the files before
                \* it, what it returned), or NoCall between two calls

vars == <<slots, files, last>>

----------------------------------------------------------------------------
(* Bounds of the model *)

\* depth signals (exchange counts of a transcript) range over 0..MaxDepth
MaxDepth == 3

----------------------------------------------------------------------------
(* Small helpers *)

Max(a, b) == IF a >= b THEN a ELSE b

Min(a, b) == IF a <= b THEN a ELSE b

RECURSIVE MaxOf(_)
\* Math.max(...rolls) for a non-empty array
MaxOf(s) == IF Len(s) = 1 THEN s[1] ELSE Max(s[1], MaxOf(Tail(s)))

\* Bun.write(path, content): create or overwrite
WriteFile(f, k, v) == [x \in (DOMAIN f) \cup {k} |-> IF x = k THEN v ELSE f[x]]

\* unlinkSync(path)
Unlink(f, k) == [x \in (DOMAIN f) \ {k} |-> f[x]]

\* JSON of a DiceState record (last_reset is a timestamp no decision reads)
StateContent(depth) == [kind |-> "state", depth |-> depth]

\* the ISO timestamp a cooldown marker holds
MarkerContent == [kind |-> "marker", depth |-> 0]

----------------------------------------------------------------------------
(* roll.ts *)

\* rollDice without the + 1: faces 0 .. dieSize - 1
rollDiceZeroBased(count, dieSize) ==
    IF count <= 0 \/ dieSize <= 0 THEN {<<>>} ELSE [1..count -> 0..(dieSize - 1)]

\* the possible results of rollDice(count, dieSize)
rollDice(count, dieSize) ==
    IF count <= 0 \/ dieSize <= 0 THEN {<<>>} ELSE [1..count -> 1..dieSize]

\* checkTarget that answers for the first roll only
checkTargetFirstRoll(rolls, target, mode) ==
    IF Len(rolls) = 0 THEN FALSE
    ELSE CASE mode = "exact" -> rolls[1] = target
           [] mode = "gte"   -> rolls[1] >= target
           [] mode = "lte"   -> rolls[1] <= target
           [] OTHER          -> FALSE

\* checkTarget with the exact mode compared by >= instead of ===
checkTargetExactAsGte(rolls, target, mode) ==
    IF Len(rolls) = 0 THEN FALSE
    ELSE CASE mode = "exact" -> \E i \in DOMAIN rolls : rolls[i] >= target
           [] mode = "gte"   -> \E i \in DOMAIN rolls : rolls[i] >= target
           [] mode = "lte"   -> \E i \in DOMAIN rolls : rolls[i] <= target
           [] OTHER          -> FALSE

checkTarget(rolls, target, mode) ==
    IF Len(rolls) = 0 THEN FALSE
    ELSE CASE mode = "exact" -> \E i \in DOMAIN rolls : rolls[i] = target
           [] mode = "gte"   -> \E i \in DOMAIN rolls : rolls[i] >= target
           [] mode = "lte"   -> \E i \in DOMAIN rolls : rolls[i] <= target
           [] OTHER          -> FALSE

RECURSIVE Pow(_, _)
Pow(b, e) == IF e = 0 THEN 1 ELSE b * Pow(b, e - 1)

\* Math.round(x) for the rational x = num / den, den > 0: floor(x + 1/2)
RoundRatio(num, den) == (2 * num + den) \div (2 * den)

\* numerator of pMiss over the denominator dieSize
MissNumerator(dieSize, target, mode) ==
    CASE mode = "exact" -> dieSize - 1
      [] mode = "gte"   -> target - 1
      [] mode = "lte"   -> dieSize - target

\* calculateProbability in hundredths of a percent:
\* Math.round((1 - pMiss^count) * 10000), the value returned times 100
calculateProbability(count, dieSize, target, mode) ==
    IF count <= 0 \/ dieSize <= 0 THEN 0
    ELSE IF mode \notin {"exact", "gte", "lte"} THEN 0
    ELSE LET den == Pow(dieSize, count)
             num == Pow(MissNumerator(dieSize, target, mode), count)
         IN  RoundRatio(10000 * (den - num), den)

----------------------------------------------------------------------------
(* state.ts, cooldown.ts: the stores *)

\* a state file keyed by the session alone
getStateFilePerSession(slotName, sessionId) == sessionId \o ".json"

getStateFile(slotName, sessionId) == slotName \o "-" \o sessionId \o ".json"

getMarkerFile(slotName, sessionId) == "triggered-" \o slotName \o "-" \o sessionId

\* a loadState that takes a state file that does not parse for the sentinel
loadStateCorruptSentinel(f, slotName, sessionId) ==
    LET k == getStateFile(slotName, sessionId)
    IN  IF k \notin DOMAIN f THEN 0
        ELSE IF f[k].kind = "state" THEN f[k].depth ELSE -1

\* depth_at_last_trigger of loadState: the default 0 when the file is absent
\* or does not parse as JSON
loadState(f, slotName, sessionId) ==
    LET k == getStateFile(slotName, sessionId)
    IN  IF k \in DOMAIN f /\ f[k].kind = "state" THEN f[k].depth ELSE 0

saveState(f, slotName, sessionId, depth) ==
    WriteFile(f, getStateFile(slotName, sessionId), StateContent(depth))

\* a reset that always stores depth 0
resetStateToZero(f, slotName, sessionId, currentDepth) ==
    [x \in (DOMAIN f) \cup {getStateFile(slotName, sessionId)} |->
        IF x = getStateFile(slotName, sessionId) THEN StateContent(0) ELSE f[x]]

resetState(f, slotName, sessionId, currentDepth) ==
    saveState(f, slotName, sessionId, currentDepth)

clearState(f, slotName, sessionId) == saveState(f, slotName, sessionId, 0)

\* a cooldown test that never finds the marker
hasCooldownNever(f, slotName, sessionId) == FALSE

hasCooldown(f, slotName, sessionId) == getMarkerFile(slotName, sessionId) \in DOMAIN f

markTriggered(f, slotName, sessionId) ==
    WriteFile(f, getMarkerFile(slotName, sessionId), MarkerContent)

clearCooldown(f, slotName, sessionId) ==
    LET k == getMarkerFile(slotName, sessionId)
    IN  IF k \in DOMAIN f THEN Unlink(f, k) ELSE f

----------------------------------------------------------------------------
(* registry.ts (read side) *)

\* slots.json whose text is not JSON (a truncated write): kept as its raw text
UnparsableRegistry == <<[raw |-> "{ \"acc\": { \"name\": \"acc\", \"di"]>>

\* file.json() succeeds on the registry file
ParsesAsRegistry(reg) == \A i \in DOMAIN reg : "name" \in DOMAIN reg[i]

\* loadSlots(): the parsed registry, the empty one when the file does not parse
loadSlots(reg) == IF ParsesAsRegistry(reg) THEN reg ELSE <<>>

\* the registry has an entry of its own under name
IsRegistered(name) == \E i \in DOMAIN loadSlots(slots) : loadSlots(slots)[i].name = name

\* slots.json is parsed into a plain object, so slots[name] also finds what
\* every object inherits from Object.prototype (toString, constructor,
\* valueOf, hasOwnProperty, ...); the model keeps two of those names
PrototypeNames == {"toString", "constructor"}

\* slots[name] for an inherited name: a function, which has a name (that of
\* the function) and none of the fields of a config (undefined: no string
\* compares equal to it, it is falsy, and no number read from it is used)
Inherited(name) ==
    [name |-> IF name = "constructor" THEN "Object" ELSE name,
     die |-> 0, target |-> 0, targetMode |-> "undefined", type |-> "undefined",
     accumulationRate |-> 0, maxDice |-> 0, fixedCount |-> 0, cooldown |-> "undefined",
     clearOnSessionStart |-> FALSE, resetOnTrigger |-> FALSE]

\* slots[name] ?? null on the object loaded from registry reg: the value, or
\* <<>> for null
LoadedValue(reg, name) ==
    IF \E i \in DOMAIN reg : reg[i].name = name
    THEN <<reg[CHOOSE i \in DOMAIN reg : reg[i].name = name]>>
    ELSE IF name \in PrototypeNames THEN <<Inherited(name)>>
    ELSE <<>>

\* listSlots() = Object.values(slots)
listSlots(reg) == loadSlots(reg)

\* getSlot(name)
getSlot(name) == LoadedValue(loadSlots(slots), name)

----------------------------------------------------------------------------
(* index.ts: contexts and dice counts *)

\* the session id of the environment (CC_DICE_SESSION_ID or the project hash)
EnvSessionId == "c"

\* CheckContext: sessionId "" is an absent one; a transcript path is given by
\* the session id its file name holds and the exchange count of the file
Context(sessionId, hasTranscript, pathSession, depth) ==
    [sessionId |-> sessionId, hasTranscript |-> hasTranscript,
     pathSession |-> pathSession, depth |-> depth]

resolveSessionId(ctx) ==
    IF ctx.sessionId # "" THEN ctx.sessionId
    ELSE IF ctx.hasTranscript /\ ctx.pathSession # "" THEN ctx.pathSession
    ELSE EnvSessionId

\* countExchanges(ctx.transcriptPath)
countExchanges(ctx) == ctx.depth

\* the dice count with the sentinel read as baseline 0 and left in place
getAccumulatorDiceCountNoCalibration(f, config, sessionId, ctx) ==
    LET currentDepth == IF ctx.hasTranscript THEN ctx.depth ELSE 0
        stored == IF getStateFile(config.name, sessionId) \in DOMAIN f
                  THEN f[getStateFile(config.name, sessionId)].depth ELSE 0
        baseline == IF stored < 0 THEN 0 ELSE stored
        depthSinceTrigger == IF currentDepth < baseline THEN 0 ELSE currentDepth - baseline
    IN  [files |-> f,
         diceCount |->
            LET q == depthSinceTrigger \div config.accumulationRate
            IN  IF q <= config.maxDice THEN q ELSE config.maxDice,
         currentDepth |-> currentDepth,
         depthSinceTrigger |-> depthSinceTrigger]

\* the dice count with the quotient rounded up instead of down
getAccumulatorDiceCountCeil(f, config, sessionId, ctx) ==
    LET currentDepth == IF ctx.hasTranscript THEN ctx.depth ELSE 0
        stored == IF getStateFile(config.name, sessionId) \in DOMAIN f
                  THEN f[getStateFile(config.name, sessionId)].depth ELSE 0
        depthSinceTrigger == IF stored < 0 \/ currentDepth < stored THEN 0
                             ELSE currentDepth - stored
    IN  [files |-> IF stored < 0
                   THEN [x \in DOMAIN f |->
                           IF x = getStateFile(config.name, sessionId)
                           THEN [kind |-> "state", depth |-> currentDepth] ELSE f[x]]
                   ELSE f,
         diceCount |->
            LET q == (depthSinceTrigger + config.accumulationRate - 1)
                        \div config.accumulationRate
            IN  IF q <= config.maxDice THEN q ELSE config.maxDice,
         currentDepth |-> currentDepth,
         depthSinceTrigger |-> depthSinceTrigger]

\* a dice count that writes the state record back on every evaluation
getAccumulatorDiceCountAlwaysSaves(f, config, sessionId, ctx) ==
    LET currentDepth == IF ctx.hasTranscript THEN countExchanges(ctx) ELSE 0
        stored == loadState(f, config.name, sessionId)
        depthAtLastTrigger == IF stored < 0 THEN currentDepth ELSE stored
        depthSinceTrigger == Max(0, currentDepth - depthAtLastTrigger)
    IN  [files |-> saveState(f, config.name, sessionId, depthAtLastTrigger),
         diceCount |-> Min(depthSinceTrigger \div config.accumulationRate, config.maxDice),
         currentDepth |-> currentDepth,
         depthSinceTrigger |-> depthSinceTrigger]

\* accumulator.ts.  A config read from slots.json never carries a depthProvider
\* (registerSlot strips it), so the depth is the transcript's or 0.
getAccumulatorDiceCount(f, config, sessionId, ctx) ==
    LET currentDepth == IF ctx.hasTranscript THEN countExchanges(ctx) ELSE 0
        stored == loadState(f, config.name, sessionId)
        calibrate == stored < 0
        depthAtLastTrigger == IF calibrate THEN currentDepth ELSE stored
        f2 == IF calibrate THEN saveState(f, config.name, sessionId, currentDepth) ELSE f
        depthSinceTrigger == Max(0, currentDepth - depthAtLastTrigger)
    IN  [files |-> f2,
         diceCount |-> Min(depthSinceTrigger \div config.accumulationRate, config.maxDice),
         currentDepth |-> currentDepth,
         depthSinceTrigger |-> depthSinceTrigger]

\* a resolution whose default branch gives one die, like the single kind
getDiceCountDefaultSingle(f, config, sessionId, ctx) ==
    IF config.type = "accumulator" THEN getAccumulatorDiceCount(f, config, sessionId, ctx)
    ELSE [files |-> f,
          diceCount |-> IF config.type = "fixed" THEN config.fixedCount ELSE 1,
          currentDepth |-> 0, depthSinceTrigger |-> 0]

getDiceCount(f, config, sessionId, ctx) ==
    CASE config.type = "accumulator" -> getAccumulatorDiceCount(f, config, sessionId, ctx)
      [] config.type = "fixed" ->
            [files |-> f, diceCount |-> config.fixedCount, currentDepth |-> 0, depthSinceTrigger |-> 0]
      [] config.type = "single" ->
            [files |-> f, diceCount |-> 1, currentDepth |-> 0, depthSinceTrigger |-> 0]
      [] OTHER ->
            [files |-> f, diceCount |-> 0, currentDepth |-> 0, depthSinceTrigger |-> 0]

\* the DiceResult of a slot that does not roll
InertResult(name) ==
    [triggered |-> FALSE, rolls |-> <<>>, best |-> 0, diceCount |-> 0,
     probability |-> 0, slotName |-> name]

DiceResult(config, rolls, diceCount) ==
    [triggered |-> checkTarget(rolls, config.target, config.targetMode),
     rolls |-> rolls,
     best |-> IF Len(rolls) > 0 THEN MaxOf(rolls) ELSE 0,
     diceCount |-> diceCount,
     probability |-> calculateProbability(diceCount, config.die, config.target, config.targetMode),
     slotName |-> config.name]

\* the depth a trigger resets an accumulator to
TriggerDepth(ctx) == IF ctx.hasTranscript THEN countExchanges(ctx) ELSE 0

\* a trigger handler that writes the marker whatever the cooldown policy
HandleTriggerAlwaysMarks(f, config, sessionId, ctx) ==
    markTriggered(IF config.resetOnTrigger /\ config.type = "accumulator"
                  THEN resetState(f, config.name, sessionId, TriggerDepth(ctx))
                  ELSE f,
                  config.name, sessionId)

\* a trigger handler that resets whatever resetOnTrigger and the kind say
HandleTriggerAlwaysResets(f, config, sessionId, ctx) ==
    IF config.cooldown = "per-session"
    THEN markTriggered(resetState(f, config.name, sessionId, TriggerDepth(ctx)),
                       config.name, sessionId)
    ELSE resetState(f, config.name, sessionId, TriggerDepth(ctx))

\* "Handle trigger": auto-reset of an accumulator, then the cooldown marker
HandleTrigger(f, config, sessionId, ctx) ==
    LET f1 == IF config.resetOnTrigger /\ config.type = "accumulator"
              THEN resetState(f, config.name, sessionId, TriggerDepth(ctx))
              ELSE f
    IN  IF config.cooldown = "per-session"
        THEN markTriggered(f1, config.name, sessionId)
        ELSE f1

----------------------------------------------------------------------------
(* index.ts: checkSlot *)

\* the possible outcomes [files, result] of checkSlot(name, ctx) on files f
checkSlot(f, name, ctx) ==
    IF getSlot(name) = <<>> THEN {[files |-> f, result |-> InertResult(name)]}
    ELSE
    LET config == getSlot(name)[1]
        sessionId == resolveSessionId(ctx)
    IN  IF config.cooldown = "per-session" /\ hasCooldown(f, name, sessionId)
        THEN {[files |-> f, result |-> InertResult(name)]}
        ELSE
        LET dc == getDiceCount(f, config, sessionId, ctx)
        IN  IF dc.diceCount <= 0
            THEN {[files |-> dc.files, result |-> InertResult(name)]}
            ELSE {LET res == DiceResult(config, rolls, dc.diceCount)
                  IN  [files |-> IF res.triggered
                                 THEN HandleTrigger(dc.files, config, sessionId, ctx)
                                 ELSE dc.files,
                       result |-> res]
                  : rolls \in rollDice(dc.diceCount, config.die)}

----------------------------------------------------------------------------
(* index.ts: checkAllSlots, the shared roll pool *)

RECURSIVE PreFilterCountsCooled(_, _, _, _)
\* a first loop that resolves every dice count before it tests the cooldown
PreFilterCountsCooled(cfgs, f, sessionId, ctx) ==
    IF cfgs = <<>> THEN [files |-> f, active |-> <<>>, results |-> <<>>]
    ELSE
    LET config == Head(cfgs)
        dc == getDiceCount(f, config, sessionId, ctx)
        rest == PreFilterCountsCooled(Tail(cfgs), dc.files, sessionId, ctx)
    IN  IF config.cooldown = "per-session" /\ hasCooldown(f, config.name, sessionId)
        THEN [files |-> rest.files, active |-> rest.active,
              results |-> <<InertResult(config.name)>> \o rest.results]
        ELSE [files |-> rest.files,
              active |-> <<[config |-> config, diceCount |-> dc.diceCount]>> \o rest.active,
              results |-> rest.results]

RECURSIVE PreFilter(_, _, _, _)
\* the first loop: cooled-down slots get their result at once, the others
\* their dice count (an accumulator may calibrate its state file here)
PreFilter(cfgs, f, sessionId, ctx) ==
    IF cfgs = <<>> THEN [files |-> f, active |-> <<>>, results |-> <<>>]
    ELSE
    LET config == Head(cfgs)
    IN  IF config.cooldown = "per-session" /\ hasCooldown(f, config.name, sessionId)
        THEN LET rest == PreFilter(Tail(cfgs), f, sessionId, ctx)
             IN  [files |-> rest.files, active |-> rest.active,
                  results |-> <<InertResult(config.name)>> \o rest.results]
        ELSE LET dc == getDiceCount(f, config, sessionId, ctx)
                 rest == PreFilter(Tail(cfgs), dc.files, sessionId, ctx)
             IN  [files |-> rest.files,
                  active |-> <<[config |-> config, diceCount |-> dc.diceCount]>> \o rest.active,
                  results |-> rest.results]

\* the key of the groups map
GroupKey(config) == config.die

RECURSIVE GroupKeys(_)
\* the keys of the groups map, in insertion order
GroupKeys(active) ==
    IF active = <<>> THEN <<>>
    ELSE LET k == GroupKey(Head(active).config)
         IN  <<k>> \o SelectSeq(GroupKeys(Tail(active)), LAMBDA x : x # k)

\* the groups map: die size -> the active slots of that die size
Groups(active) ==
    LET keys == GroupKeys(active)
    IN  [i \in 1..Len(keys) |->
            [dieSize |-> keys[i],
             slots |-> SelectSeq(active, LAMBDA s : GroupKey(s.config) = keys[i])]]

\* a test that looks at the first member of the group only
anyNeedsDiceFirstOnly(groupSlots) == groupSlots[1].diceCount > 0

anyNeedsDice(groupSlots) == \E i \in DOMAIN groupSlots : groupSlots[i].diceCount > 0

\* the value of an array element that is not there, as a number no die shows
undefined == -1

\* Math.max of an array that holds undefined, as a number no die shows
NaN == -2

\* the possible base rolls of a group: rollDice(1, dieSize)[0], or 0; the
\* first element of the empty array rollDice gives for dieSize <= 0 is undefined
BaseRolls(g) ==
    IF anyNeedsDice(g.slots)
    THEN {IF r = <<>> THEN undefined ELSE r[1] : r \in rollDice(1, g.dieSize)}
    ELSE {0}

RECURSIVE BonusDraws(_, _)
\* the possible bonus rolls of the members of a group, member by member
BonusDraws(members, dieSize) ==
    IF members = <<>> THEN {<<>>}
    ELSE {<<b>> \o rest :
            b \in (IF Head(members).diceCount > 1
                   THEN rollDice(Head(members).diceCount - 1, dieSize)
                   ELSE {<<>>}),
            rest \in BonusDraws(Tail(members), dieSize)}

RECURSIVE PoolDrawsOneBase(_)
\* draws in which the base roll of the first group serves every group
PoolDrawsOneBase(groups) ==
    IF groups = <<>> THEN {<<>>}
    ELSE UNION {
        {<<[baseRoll |-> b, bonus |-> bs]>> \o rest :
            bs \in BonusDraws(Head(groups).slots, Head(groups).dieSize),
            rest \in {r \in PoolDrawsOneBase(Tail(groups)) :
                        \A i \in DOMAIN r : r[i].baseRoll \in {0, b}}}
        : b \in BaseRolls(Head(groups))}

RECURSIVE PoolDraws(_)
\* everything Math.random decides in one checkAllSlots: per group the base
\* roll and the bonus rolls of its members
PoolDraws(groups) ==
    IF groups = <<>> THEN {<<>>}
    ELSE {<<[baseRoll |-> b, bonus |-> bs]>> \o rest :
            b \in BaseRolls(Head(groups)),
            bs \in BonusDraws(Head(groups).slots, Head(groups).dieSize),
            rest \in PoolDraws(Tail(groups))}

\* the rolls with the base roll put last instead of first
PoolRollsBaseLast(baseRoll, bonusRolls) == bonusRolls \o <<baseRoll>>

\* rolls = [baseRoll, ...bonusRolls]
PoolRolls(baseRoll, bonusRolls) == <<baseRoll>> \o bonusRolls

\* the rolls that hold a number: undefined is neither equal to, nor >=, nor <=
\* any target
Defined(rolls) == SelectSeq(rolls, LAMBDA r : r # undefined)

PoolResult(config, dieSize, rolls, diceCount) ==
    [triggered |-> checkTarget(Defined(rolls), config.target, config.targetMode),
     rolls |-> rolls,
     best |-> IF Defined(rolls) = rolls THEN MaxOf(rolls) ELSE NaN,
     diceCount |-> diceCount,
     probability |-> calculateProbability(diceCount, dieSize, config.target, config.targetMode),
     slotName |-> config.name]

\* the trigger handling inside the pool
PoolTrigger(f, config, sessionId, ctx) ==
    LET currentDepth == IF ctx.hasTranscript THEN countExchanges(ctx) ELSE 0
        f1 == IF config.resetOnTrigger /\ config.type = "accumulator"
              THEN resetState(f, config.name, sessionId, currentDepth)
              ELSE f
    IN  IF config.cooldown = "per-session"
        THEN markTriggered(f1, config.name, sessionId)
        ELSE f1

\* a member with diceCount <= 0 skipped without a result
ZeroDiceSkipped(config) == <<>>

\* the result pushed for a member with diceCount <= 0
ZeroDiceResult(config) == <<InertResult(config.name)>>

RECURSIVE RollGroup(_, _, _, _, _, _, _)
\* the inner loop over the members of one group
RollGroup(members, dieSize, baseRoll, bonus, f, sessionId, ctx) ==
    IF members = <<>> THEN [files |-> f, results |-> <<>>]
    ELSE
    LET m == Head(members)
    IN  IF m.diceCount <= 0
        THEN LET rest == RollGroup(Tail(members), dieSize, baseRoll, Tail(bonus), f, sessionId, ctx)
             IN  [files |-> rest.files, results |-> ZeroDiceResult(m.config) \o rest.results]
        ELSE LET res == PoolResult(m.config, dieSize, PoolRolls(baseRoll, Head(bonus)), m.diceCount)
                 f1 == IF res.triggered THEN PoolTrigger(f, m.config, sessionId, ctx) ELSE f
                 rest == RollGroup(Tail(members), dieSize, baseRoll, Tail(bonus), f1, sessionId, ctx)
             IN  [files |-> rest.files, results |-> <<res>> \o rest.results]

RECURSIVE RollGroups(_, _, _, _, _)
\* the outer loop over the groups
RollGroups(groups, draws, f, sessionId, ctx) ==
    IF groups = <<>> THEN [files |-> f, results |-> <<>>]
    ELSE
    LET g == Head(groups)
        d == Head(draws)
        one == RollGroup(g.slots, g.dieSize, d.baseRoll, d.bonus, f, sessionId, ctx)
        rest == RollGroups(Tail(groups), Tail(draws), one.files, sessionId, ctx)
    IN  [files |-> rest.files, results |-> one.results \o rest.results]

\* the possible outcomes [files, results] of checkAllSlots(ctx) on files f
checkAllSlots(f, ctx) ==
    IF Len(listSlots(slots)) = 0 THEN {[files |-> f, results |-> <<>>]}
    ELSE
    LET sessionId == resolveSessionId(ctx)
        pre == PreFilter(listSlots(slots), f, sessionId, ctx)
        groups == Groups(pre.active)
    IN  {LET out == RollGroups(groups, d, pre.files, sessionId, ctx)
         IN  [files |-> out.files, results |-> pre.results \o out.results]
         : d \in PoolDraws(groups)}

----------------------------------------------------------------------------
(* index.ts: resetSlot, clearSlot, getSlotStatus, sessionStart *)

\* a resetSlot that falls back to depth 0, as the trigger path of checkSlot does
resetSlotFallbackZero(f, name, ctx) ==
    IF getSlot(name) = <<>> THEN f
    ELSE resetState(f, name, resolveSessionId(ctx),
                    IF ctx.hasTranscript THEN countExchanges(ctx) ELSE 0)

\* the files after resetSlot(name, ctx)
resetSlot(f, name, ctx) ==
    IF getSlot(name) = <<>> THEN f
    ELSE resetState(f, name, resolveSessionId(ctx),
                    IF ctx.hasTranscript THEN countExchanges(ctx) ELSE -1)

\* a clearSlot that forgets the cooldown marker
clearSlotKeepsMarker(f, name, ctx) ==
    IF getSlot(name) = <<>> THEN f
    ELSE clearState(f, name, resolveSessionId(ctx))

\* the files after clearSlot(name, ctx)
clearSlot(f, name, ctx) ==
    IF getSlot(name) = <<>> THEN f
    ELSE clearCooldown(clearState(f, name, resolveSessionId(ctx)), name, resolveSessionId(ctx))

\* getSlotStatus(name, ctx): [files, status], status <<>> for null
getSlotStatus(f, name, ctx) ==
    IF getSlot(name) = <<>> THEN [files |-> f, status |-> <<>>]
    ELSE
    LET config == getSlot(name)[1]
        sessionId == resolveSessionId(ctx)
        dc == getDiceCount(f, config, sessionId, ctx)
    IN  [files |-> dc.files,
         status |-> <<[name |-> config.name,
                       type |-> config.type,
                       diceCount |-> dc.diceCount,
                       currentDepth |-> dc.currentDepth,
                       depthSinceTrigger |-> dc.depthSinceTrigger,
                       probability |-> calculateProbability(dc.diceCount, config.die,
                                                            config.target, config.targetMode),
                       nextDiceAt |-> IF config.type = "accumulator"
                                      THEN loadState(dc.files, name, sessionId)
                                           + (dc.diceCount + 1) * config.accumulationRate
                                      ELSE 0,
                       sessionId |-> sessionId]>>]

RECURSIVE ClearEverySlot(_, _, _)
\* the loop of sessionStart without the test of clearOnSessionStart
ClearEverySlot(cfgs, f, sessionId) ==
    IF cfgs = <<>> THEN [files |-> f, cleared |-> <<>>]
    ELSE
    LET rest == ClearEverySlot(Tail(cfgs),
                    Unlink(WriteFile(f, getStateFile(Head(cfgs).name, sessionId), StateContent(0)),
                           getMarkerFile(Head(cfgs).name, sessionId)),
                    sessionId)
    IN  [files |-> rest.files, cleared |-> <<Head(cfgs).name>> \o rest.cleared]

RECURSIVE ClearAutoSlots(_, _, _)
\* the loop of sessionStart: [files, cleared]
ClearAutoSlots(cfgs, f, sessionId) ==
    IF cfgs = <<>> THEN [files |-> f, cleared |-> <<>>]
    ELSE
    LET slot == Head(cfgs)
    IN  IF slot.clearOnSessionStart
        THEN LET rest == ClearAutoSlots(Tail(cfgs),
                             clearCooldown(clearState(f, slot.name, sessionId), slot.name, sessionId),
                             sessionId)
             IN  [files |-> rest.files, cleared |-> <<slot.name>> \o rest.cleared]
        ELSE ClearAutoSlots(Tail(cfgs), f, sessionId)

\* a sessionStart that reports only the slots it found something to clear for
sessionStartReportsChanged(f, ctx) ==
    LET sessionId == IF ctx.sessionId # "" THEN ctx.sessionId
                     ELSE IF ctx.hasTranscript /\ ctx.pathSession # "" THEN ctx.pathSession
                     ELSE EnvSessionId
        Dirty(name) ==
            \/ getMarkerFile(name, sessionId) \in DOMAIN f
            \/ getStateFile(name, sessionId) \notin DOMAIN f
            \/ f[getStateFile(name, sessionId)] # StateContent(0)
        all == ClearAutoSlots(listSlots(slots), f, sessionId)
    IN  [files |-> all.files, cleared |-> SelectSeq(all.cleared, Dirty)]

sessionStart(f, ctx) == ClearAutoSlots(listSlots(slots), f, resolveSessionId(ctx))

----------------------------------------------------------------------------
(* Registries and contexts the model runs on *)

\* registry.ts: the defaults registerSlot merges under the supplied fields
SLOT_DEFAULTS ==
    [targetMode |-> "exact", type |-> "accumulator", accumulationRate |-> 7,
     maxDice |-> 100, fixedCount |-> 1, cooldown |-> "per-session",
     clearOnSessionStart |-> TRUE, resetOnTrigger |-> TRUE]

\* validateName(name, label) as the specification words it: the name is not
\* empty, holds no path-traversal characters and is no hidden or relative
\* segment; TRUE when the name passes
validateName(name) ==
    /\ Len(name) > 0
    /\ Head(name) # "."
    /\ \A i \in 1..Len(name) : SubSeq(name, i, i) \notin {"/", "\\"}
    /\ \A i \in 1..(Len(name) - 1) : SubSeq(name, i, i + 1) # ".."

\* fullConfig = { ...SLOT_DEFAULTS, ...config }
fullConfig(config) == config @@ SLOT_DEFAULTS

\* const { depthProvider, ...serializable } = fullConfig
Serializable(config) == [k \in (DOMAIN config) \ {"depthProvider"} |-> config[k]]

\* the entry registerSlot(config) stores
Registered(config) == Serializable(fullConfig(config))

\* the key whose assignment on a plain object sets the prototype of the
\* object instead of creating an entry
ProtoKey == "__proto__"

\* name in slots: an entry of its own or anything inherited
InObject(reg, name) ==
    \/ \E i \in DOMAIN reg : reg[i].name = name
    \/ name \in PrototypeNames \cup {ProtoKey}

\* slots[name] = entry followed by saveSlots(slots): JSON.stringify writes the
\* entries of the object itself, a changed prototype is not written
SetEntry(reg, name, entry) ==
    IF name = ProtoKey THEN reg
    ELSE IF \E i \in DOMAIN reg : reg[i].name = name
    THEN [i \in DOMAIN reg |-> IF reg[i].name = name THEN entry ELSE reg[i]]
    ELSE Append(reg, entry)

\* registerSlot(config) on registry reg: the registry saved and the config returned
registerSlot(reg, config) ==
    [slots |-> SetEntry(loadSlots(reg), fullConfig(config).name,
                        Serializable(fullConfig(config))),
     returned |-> fullConfig(config)]

\* unregisterSlot(name) on registry reg: the registry left and the boolean returned
unregisterSlot(reg, name) ==
    IF ~InObject(loadSlots(reg), name) THEN [slots |-> reg, returned |-> FALSE]
    ELSE [slots |-> SelectSeq(loadSlots(reg), LAMBDA e : e.name # name), returned |-> TRUE]


\* an accumulator that fires on a 2 of a d2, one more die per exchange, marks a cooldown
AccSlot == Registered([name |-> "acc", die |-> 2, target |-> 2,
                       accumulationRate |-> 1, maxDice |-> 2])

\* an accumulator that always fires once it has a die; no cooldown, kept at session start
KeepSlot == Registered([name |-> "keep", die |-> 2, target |-> 1, targetMode |-> "gte",
                        accumulationRate |-> 2, maxDice |-> 1, cooldown |-> "none",
                        clearOnSessionStart |-> FALSE])

\* an accumulator without auto-reset and without cooldown
RawSlot == Registered([name |-> "raw", die |-> 3, target |-> 2, targetMode |-> "lte",
                       accumulationRate |-> 1, maxDice |-> 2, cooldown |-> "none",
                       resetOnTrigger |-> FALSE])

\* a single die with a cooldown, kept at session start
SoloSlot == Registered([name |-> "solo", die |-> 3, target |-> 2, targetMode |-> "gte",
                        type |-> "single", clearOnSessionStart |-> FALSE])

Registries == {<<AccSlot, KeepSlot>>, <<SoloSlot, RawSlot>>}

\* the contexts of session s: without a transcript, with one of every depth,
\* and the two ways a context without sessionId resolves
ContextsOf(s, depths) ==
    {Context(s, FALSE, "", 0)}
    \cup {Context(s, TRUE, s, d) : d \in depths}
    \cup {Context("", TRUE, s, d) : d \in depths}

Depths == 0..MaxDepth

Contexts == ContextsOf("c", Depths) \cup {Context("", FALSE, "", 0)}

\* the names the API is called with: the registered ones and one that is not
CallNames == {listSlots(slots)[i].name : i \in DOMAIN listSlots(slots)} \cup {"ghost"}

----------------------------------------------------------------------------
(* The API calls as actions *)

NoFiles == [k \in {} |-> MarkerContent]

NoCall ==
    [op |-> "none", name |-> "", sessionId |-> "", hasTranscript |-> FALSE, depth |-> 0,
     pre |-> NoFiles, results |-> <<>>, status |-> <<>>, cleared |-> <<>>]

\* no call is in progress: the API runs one call at a time, to completion
Idle == last = NoCall

Call(op, name, ctx, results, status, cleared) ==
    [op |-> op, name |-> name, sessionId |-> resolveSessionId(ctx),
     hasTranscript |-> ctx.hasTranscript,
     depth |-> IF ctx.hasTranscript THEN ctx.depth ELSE 0,
     pre |-> files, results |-> results, status |-> status, cleared |-> cleared]

GetSlotStatus(name, ctx) ==
    LET out == getSlotStatus(files, name, ctx)
    IN  /\ Idle
        /\ files' = out.files
        /\ last' = Call("getSlotStatus", name, ctx, <<>>, out.status, <<>>)
        /\ UNCHANGED slots

CheckSlot(name, ctx) ==
    /\ Idle
    /\ \E out \in checkSlot(files, name, ctx) :
        /\ files' = out.files
        /\ last' = Call("checkSlot", name, ctx, <<out.result>>, <<>>, <<>>)
        /\ UNCHANGED slots

CheckAllSlots(ctx) ==
    /\ Idle
    /\ \E out \in checkAllSlots(files, ctx) :
        /\ files' = out.files
        /\ last' = Call("checkAllSlots", "", ctx, out.results, <<>>, <<>>)
        /\ UNCHANGED slots

ResetSlot(name, ctx) ==
    /\ Idle
    /\ files' = resetSlot(files, name, ctx)
    /\ last' = Call("resetSlot", name, ctx, <<>>, <<>>, <<>>)
    /\ UNCHANGED slots

ClearSlot(name, ctx) ==
    /\ Idle
    /\ files' = clearSlot(files, name, ctx)
    /\ last' = Call("clearSlot", name, ctx, <<>>, <<>>, <<>>)
    /\ UNCHANGED slots

SessionStart(ctx) ==
    LET out == sessionStart(files, ctx)
    IN  /\ Idle
        /\ files' = out.files
        /\ last' = Call("sessionStart", "", ctx, <<>>, <<>>, out.cleared)
        /\ UNCHANGED slots

\* the caller has taken the result; the next call can start
Return ==
    /\ ~Idle
    /\ last' = NoCall
    /\ UNCHANGED <<slots, files>>

Step(ctxs) ==
    \/ \E n \in CallNames, c \in ctxs : GetSlotStatus(n, c)
    \/ \E n \in CallNames, c \in ctxs : CheckSlot(n, c)
    \/ \E c \in ctxs : CheckAllSlots(c)
    \/ \E n \in CallNames, c \in ctxs : ResetSlot(n, c)
    \/ \E n \in CallNames, c \in ctxs : ClearSlot(n, c)
    \/ \E c \in ctxs : SessionStart(c)
    \/ Return

Init ==
    /\ slots \in Registries
    /\ files = NoFiles
    /\ last = NoCall

Next == Step(Contexts)

Spec == Init /\ [][Next]_vars

----------------------------------------------------------------------------
(* The shared roll pool: registries that mix kinds, die sizes and cooldowns *)

ExactSingle(name, target) ==
    Registered([name |-> name, die |-> 3, target |-> target, type |-> "single",
                cooldown |-> "none"])

\* two single d3 slots with exact targets, every pair of targets
ExactPairRegistries ==
    {<<ExactSingle("hi", t1), ExactSingle("lo", t2)>> : t1 \in 1..3, t2 \in 1..3}

\* an accumulator, a single and a fixed slot on one die size
MixedKindsRegistry ==
    <<Registered([name |-> "grow", die |-> 3, target |-> 3, accumulationRate |-> 1,
                  maxDice |-> 2, cooldown |-> "none"]),
      Registered([name |-> "flat", die |-> 3, target |-> 1, targetMode |-> "gte",
                  type |-> "single", cooldown |-> "none"]),
      Registered([name |-> "pair", die |-> 3, target |-> 1, targetMode |-> "lte",
                  type |-> "fixed", fixedCount |-> 2, cooldown |-> "none"])>>

\* a slot that never has dice, a single and an accumulator with cooldowns, two die sizes
CooledMixRegistry ==
    <<Registered([name |-> "zero", die |-> 2, target |-> 1, type |-> "fixed",
                  fixedCount |-> 0, cooldown |-> "none"]),
      Registered([name |-> "hot", die |-> 2, target |-> 1, targetMode |-> "gte",
                  type |-> "single"]),
      Registered([name |-> "warm", die |-> 3, target |-> 2, targetMode |-> "gte",
                  accumulationRate |-> 1, maxDice |-> 2])>>

PoolRegistries ==
    ExactPairRegistries \cup {MixedKindsRegistry, CooledMixRegistry, <<>>}

PoolContexts == {Context("c", FALSE, "", 0)} \cup {Context("c", TRUE, "c", d) : d \in {1, MaxDepth}}

InitPool ==
    /\ slots \in PoolRegistries
    /\ files = NoFiles
    /\ last = NoCall

NextPool == Step(PoolContexts)

SpecPool == InitPool /\ [][NextPool]_vars

----------------------------------------------------------------------------
(* Reading the last call *)

\* the registered config of a result
ConfigOf(name) == getSlot(name)[1]

\* the results of the last call, when it was a checkAllSlots
PoolResults == IF last.op = "checkAllSlots" THEN last.results ELSE <<>>

\* the slot was under cooldown when the last call started
WasCooled(config) ==
    config.cooldown = "per-session" /\ hasCooldown(last.pre, config.name, last.sessionId)

----------------------------------------------------------------------------
(* C1: in one checkAllSlots invocation, two single-type slots on the same  *)
(* die size with different exact targets never both report triggered.      *)

ExactPair(ri, rj) ==
    LET ci == ConfigOf(ri.slotName)
        cj == ConfigOf(rj.slotName)
    IN  /\ ri.slotName # rj.slotName
        /\ ci.type = "single" /\ cj.type = "single"
        /\ ci.die = cj.die
        /\ ci.targetMode = "exact" /\ cj.targetMode = "exact"
        /\ ci.target # cj.target

C1_ExactTargetsExclusive ==
    \A i, j \in DOMAIN PoolResults :
        ExactPair(PoolResults[i], PoolResults[j])
            => ~(PoolResults[i].triggered /\ PoolResults[j].triggered)

\* both slots rolled, the base roll hit one target and so missed the other
C1_Witness ==
    \E i, j \in DOMAIN PoolResults :
        /\ ExactPair(PoolResults[i], PoolResults[j])
        /\ PoolResults[i].triggered
        /\ PoolResults[j].diceCount = 1
        /\ ~PoolResults[j].triggered

----------------------------------------------------------------------------
(* C2: in one checkAllSlots invocation every slot that rolls reports       *)
(* exactly diceCount rolls, each in 1..dieSize, and the first roll is the  *)
(* same for all slots of one die size, whatever their kinds.               *)

Rolling(r) == r.diceCount > 0

----------------------------------------------------------------------------
(* C4: checkAllSlots returns exactly one outcome per registered slot: as   *)
(* many results as registry entries and every registered name exactly      *)
(* once, whatever the mix of cooled-down, zero-dice and rolling slots and  *)
(* of die sizes; with an empty registry the result is empty.               *)

ResultsNamed(name) == {i \in DOMAIN last.results : last.results[i].slotName = name}

C4_OneOutcomePerSlot ==
    last.op = "checkAllSlots" =>
        /\ Len(last.results) = Len(slots)
        /\ \A i \in DOMAIN slots : Cardinality(ResultsNamed(slots[i].name)) = 1

\* one slot was under cooldown, one had no dice and one rolled, on two die sizes
C4_Witness ==
    /\ last.op = "checkAllSlots"
    /\ \E i, j, k \in DOMAIN slots :
        /\ WasCooled(slots[i])
        /\ ~WasCooled(slots[j])
        /\ \E n \in ResultsNamed(slots[j].name) : last.results[n].diceCount = 0
        /\ \E n \in ResultsNamed(slots[k].name) : last.results[n].diceCount > 0
        /\ slots[k].die # slots[i].die

----------------------------------------------------------------------------
(* C3: once a per-session slot has triggered in a session, every later     *)
(* checkSlot or checkAllSlots evaluation of it in that session returns     *)
(* triggered = false, diceCount = 0 and no rolls, until clearSlot or       *)
(* sessionStart removes the marker; so it triggers at most once between    *)
(* two clears.                                                             *)

\* the session ids the calls of the model resolve to
SessionIds == {resolveSessionId(c) : c \in Contexts}

IsCheck == last.op \in {"checkSlot", "checkAllSlots"}

PerSession(name) == getSlot(name) # <<>> /\ ConfigOf(name).cooldown = "per-session"

Marked(f, name, sessionId) == getMarkerFile(name, sessionId) \in DOMAIN f

\* the slot of result r carried its marker when the last call started
MarkedBefore(r) == PerSession(r.slotName) /\ Marked(last.pre, r.slotName, last.sessionId)

\* an evaluation of a marked slot rolls nothing
C3_InertWhileMarked ==
    IsCheck => \A i \in DOMAIN last.results :
        MarkedBefore(last.results[i]) =>
            /\ ~last.results[i].triggered
            /\ last.results[i].diceCount = 0
            /\ last.results[i].rolls = <<>>

\* a trigger of a per-session slot leaves the marker behind
C3_TriggerMarks ==
    IsCheck => \A i \in DOMAIN last.results :
        (PerSession(last.results[i].slotName) /\ last.results[i].triggered)
            => Marked(files, last.results[i].slotName, last.sessionId)

\* a marker goes away in a clearSlot or a sessionStart only
C3_MarkerStays ==
    \A i \in DOMAIN slots, s \in SessionIds :
        (Marked(files, slots[i].name, s) /\ ~Marked(files', slots[i].name, s))
            => last'.op \in {"clearSlot", "sessionStart"}

C3_CooldownUntilCleared ==
    /\ [](C3_InertWhileMarked /\ C3_TriggerMarks)
    /\ [][C3_MarkerStays]_vars

\* a single-die slot that had triggered was checked again and did not roll
C3_Witness ==
    /\ IsCheck
    /\ \E i \in DOMAIN last.results :
        /\ MarkedBefore(last.results[i])
        /\ ConfigOf(last.results[i].slotName).type = "single"
        /\ last.results[i].diceCount = 0

----------------------------------------------------------------------------
(* The accumulator alone: one accumulator slot over the rates, caps and    *)
(* depths of the accumulator tests                                         *)

AccRates == {1, 2, 7}

AccCaps == {0, 2, 5}

AccDepths == (0..MaxDepth) \cup {5, 7, 14, 21, 100}

\* a one-sided die: every roll of it hits, and a hit resets the baseline
AccOnly(rate, cap) ==
    Registered([name |-> "acc", die |-> 1, target |-> 1, targetMode |-> "gte",
                accumulationRate |-> rate, maxDice |-> cap, cooldown |-> "none"])

AccContexts == {Context("c", FALSE, "", 0)} \cup {Context("c", TRUE, "c", d) : d \in AccDepths}

InitAcc ==
    /\ slots \in {<<AccOnly(rate, cap)>> : rate \in AccRates, cap \in AccCaps}
    /\ files = NoFiles
    /\ last = NoCall

NextAcc == Step(AccContexts)

SpecAcc == InitAcc /\ [][NextAcc]_vars

----------------------------------------------------------------------------
(* C5: for an accumulator slot with accumulationRate >= 1, maxDice >= 0    *)
(* and a calibrated baseline the dice count is                             *)
(* min(floor(max(0, currentDepth - depthAtLastTrigger) / rate), maxDice):  *)
(* never negative, never above maxDice, non-decreasing in the depth for a  *)
(* fixed baseline (rate 7: 5 -> 0, 7 -> 1, 14 -> 2, 21 -> 3; depth 100     *)
(* with maxDice 5 -> 5).                                                   *)

\* the dice count the last call reported for the slot named name
Reported(name) ==
    IF last.op = "getSlotStatus" THEN {last.status[i].diceCount : i \in DOMAIN last.status}
    ELSE {last.results[i].diceCount : i \in ResultsNamed(name)}

\* k is min(floor(since / rate), cap), said without division
IsCappedQuotient(k, since, rate, cap) ==
    /\ k >= 0
    /\ k <= cap
    /\ k * rate <= since
    /\ k < cap => since < (k + 1) * rate

\* the baseline the last call found
BaselineBefore(name) == loadState(last.pre, name, last.sessionId)

Evaluated(config) ==
    /\ last.op \in {"getSlotStatus", "checkSlot", "checkAllSlots"}
    /\ last.op # "checkAllSlots" => last.name = config.name
    /\ config.type = "accumulator"
    /\ config.accumulationRate >= 1
    /\ config.maxDice >= 0
    /\ BaselineBefore(config.name) >= 0

C5_Formula ==
    \A i \in DOMAIN slots : Evaluated(slots[i]) =>
        \A k \in Reported(slots[i].name) :
            IsCappedQuotient(k, Max(0, last.depth - BaselineBefore(slots[i].name)),
                             slots[i].accumulationRate, slots[i].maxDice)

C5_Examples ==
    \A i \in DOMAIN slots :
        (Evaluated(slots[i]) /\ BaselineBefore(slots[i].name) = 0
           /\ slots[i].accumulationRate = 7) =>
        \A k \in Reported(slots[i].name) :
            /\ (last.depth = 5) => k = 0
            /\ (last.depth = 7 /\ slots[i].maxDice >= 1) => k = 1
            /\ (last.depth = 14 /\ slots[i].maxDice >= 2) => k = 2
            /\ (last.depth = 21 /\ slots[i].maxDice >= 3) => k = 3
            /\ (last.depth = 100 /\ slots[i].maxDice = 5) => k = 5

\* on the files as they are, a greater depth never gives fewer dice
C5_Monotone ==
    \A i \in DOMAIN slots :
        (slots[i].type = "accumulator" /\ loadState(files, slots[i].name, EnvSessionId) >= 0) =>
        \A c1, c2 \in AccContexts :
            (c1.hasTranscript /\ c2.hasTranscript /\ c1.depth <= c2.depth) =>
                getAccumulatorDiceCount(files, slots[i], EnvSessionId, c1).diceCount
                    <= getAccumulatorDiceCount(files, slots[i], EnvSessionId, c2).diceCount

C5_AccumulatorDiceCount == C5_Formula /\ C5_Examples /\ C5_Monotone

\* rate 7, baseline 0, depth 100 and maxDice 5: the status reports 5 dice
C5_Witness ==
    /\ last.op = "getSlotStatus"
    /\ last.depth = 100
    /\ \E i \in DOMAIN slots :
        /\ Evaluated(slots[i])
        /\ slots[i].accumulationRate = 7
        /\ slots[i].maxDice = 5
        /\ BaselineBefore(slots[i].name) = 0
        /\ Reported(slots[i].name) = {5}

----------------------------------------------------------------------------
(* C6: when the persisted state of an accumulator slot holds the sentinel  *)
(* -1 and an evaluation (status or check) observes current depth d, that   *)
(* evaluation reports diceCount = 0 and the persisted state afterwards     *)
(* holds depthAtLastTrigger = d.                                           *)

\* the last call resolved the dice count of the slot from a transcript: a
\* status of it, or a check of it that its cooldown did not cut short
ObservedDepth(config) ==
    /\ last.hasTranscript
    /\ \/ last.op = "getSlotStatus" /\ last.name = config.name
       \/ /\ last.op = "checkSlot" /\ last.name = config.name
          /\ ~Marked(last.pre, config.name, last.sessionId)
       \/ /\ last.op = "checkAllSlots"
          /\ ~(config.cooldown = "per-session" /\ Marked(last.pre, config.name, last.sessionId))

SentinelBefore(config) ==
    config.type = "accumulator" /\ BaselineBefore(config.name) = -1

C6_SentinelCalibrated ==
    \A i \in DOMAIN slots :
        (SentinelBefore(slots[i]) /\ ObservedDepth(slots[i])) =>
            /\ Reported(slots[i].name) = {0}
            /\ loadState(files, slots[i].name, last.sessionId) = last.depth

\* a check at the greatest depth found the sentinel, rolled nothing and stored the depth
C6_Witness ==
    /\ last.op \in {"checkSlot", "checkAllSlots"}
    /\ last.depth = MaxDepth
    /\ \E i \in DOMAIN slots :
        /\ SentinelBefore(slots[i])
        /\ ObservedDepth(slots[i])
        /\ slots[i].accumulationRate = 1
        /\ loadState(files, slots[i].name, last.sessionId) = MaxDepth

----------------------------------------------------------------------------
(* C7: after resetSlot without a depth signal stored the sentinel -1, and  *)
(* whatever getSlotStatus / checkSlot / checkAllSlots calls follow, the    *)
(* sentinel is replaced only by a call that has a real depth signal.       *)

\* the last call was an evaluation that found the sentinel and replaced it
ReplacedSentinel(config) ==
    /\ last.op \in {"getSlotStatus", "checkSlot", "checkAllSlots"}
    /\ SentinelBefore(config)
    /\ loadState(files, config.name, last.sessionId) # -1

C7_SentinelNeedsDepth ==
    \A i \in DOMAIN slots : ReplacedSentinel(slots[i]) => last.hasTranscript

----------------------------------------------------------------------------
(* C8: when an accumulator slot with resetOnTrigger = true triggers, in    *)
(* checkSlot or checkAllSlots, its persisted depthAtLastTrigger becomes    *)
(* the current depth of that call, or -1 if the call has no depth signal;  *)
(* a status query at the same depth right afterwards reports 0 dice.       *)

\* the context of the last call
LastContext == Context(last.sessionId, last.hasTranscript, last.sessionId, last.depth)

\* result r is a trigger of an accumulator that resets on trigger
ResettingTrigger(r) ==
    /\ IsCheck
    /\ r.triggered
    /\ getSlot(r.slotName) # <<>>
    /\ ConfigOf(r.slotName).type = "accumulator"
    /\ ConfigOf(r.slotName).resetOnTrigger

----------------------------------------------------------------------------
(* Two sessions: slot names and session ids that contain '-'               *)

\* an accumulator on a one-sided die: it triggers whenever it has a die
IsoSlot(name) ==
    Registered([name |-> name, die |-> 1, target |-> 1, accumulationRate |-> 1,
                maxDice |-> 1])

IsoRegistries == {<<IsoSlot("a"), IsoSlot("a-b")>>, <<IsoSlot("a"), IsoSlot("b")>>}

IsoSessions == {"c", "b-c"}

IsoContexts ==
    {Context(s, FALSE, "", 0) : s \in IsoSessions}
        \cup {Context(s, TRUE, s, d) : s \in IsoSessions, d \in {0, MaxDepth}}

InitIso ==
    /\ slots \in IsoRegistries
    /\ files = NoFiles
    /\ last = NoCall

NextIso == Step(IsoContexts)

SpecIso == InitIso /\ [][NextIso]_vars

----------------------------------------------------------------------------
(* C9: for any two distinct session ids A and B and any registered slot    *)
(* names (names and ids may contain '-'), every operation executed under A *)
(* leaves the accumulator state and the cooldown marker observed under B   *)
(* unchanged, for every slot.                                              *)

\* what session sessionId observes of a slot in files f
Observed(f, name, sessionId) ==
    [depthAtLastTrigger |-> loadState(f, name, sessionId),
     cooldown |-> hasCooldown(f, name, sessionId)]

C9_SessionsIsolated ==
    last.op # "none" =>
        \A B \in IsoSessions \ {last.sessionId} : \A i \in DOMAIN slots :
            Observed(files, slots[i].name, B) = Observed(last.pre, slots[i].name, B)

----------------------------------------------------------------------------
(* C10: sessionStart, for the resolved session, sets depthAtLastTrigger to *)
(* 0 and removes the cooldown marker for exactly the registered slots with *)
(* clearOnSessionStart = true, leaves state and marker of every slot with  *)
(* the flag false unchanged, and returns exactly the names of the slots    *)
(* with the flag true.                                                     *)

\* the state file and the marker of a slot in files f, as they are on disk
OnDisk(f, name, sessionId) ==
    [state |-> IF getStateFile(name, sessionId) \in DOMAIN f
               THEN <<f[getStateFile(name, sessionId)]>> ELSE <<>>,
     marker |-> getMarkerFile(name, sessionId) \in DOMAIN f]

AutoClearNames == {slots[i].name : i \in {j \in DOMAIN slots : slots[j].clearOnSessionStart}}

C10_SessionStartClearsFlagged ==
    last.op = "sessionStart" =>
        /\ \A i \in DOMAIN slots :
              IF slots[i].clearOnSessionStart
              THEN /\ loadState(files, slots[i].name, last.sessionId) = 0
                   /\ ~Marked(files, slots[i].name, last.sessionId)
              ELSE OnDisk(files, slots[i].name, last.sessionId)
                     = OnDisk(last.pre, slots[i].name, last.sessionId)
        /\ {last.cleared[k] : k \in DOMAIN last.cleared} = AutoClearNames
        /\ Len(last.cleared) = Cardinality(AutoClearNames)

\* a flagged slot lost its marker and its baseline, an unflagged one kept its baseline
C10_Witness ==
    /\ last.op = "sessionStart"
    /\ \E i, j \in DOMAIN slots :
        /\ slots[i].clearOnSessionStart
        /\ Marked(last.pre, slots[i].name, last.sessionId)
        /\ loadState(last.pre, slots[i].name, last.sessionId) > 0
        /\ ~slots[j].clearOnSessionStart
        /\ loadState(files, slots[j].name, last.sessionId) > 0

----------------------------------------------------------------------------
(* C11: sessionStart is idempotent: called twice in a row with the same    *)
(* context and registry it returns the same list and leaves the same       *)
(* depthAtLastTrigger values and the same set of cooldown markers as       *)
(* called once.                                                            *)

C11_SessionStartIdempotent ==
    last.op = "sessionStart" =>
        /\ sessionStart(files, LastContext).cleared = last.cleared
        /\ sessionStart(files, LastContext).files = files

\* the first call had a marker and a baseline to clear
C11_Witness ==
    /\ last.op = "sessionStart"
    /\ last.cleared # <<>>
    /\ \E i \in DOMAIN slots :
        /\ slots[i].clearOnSessionStart
        /\ Marked(last.pre, slots[i].name, last.sessionId)
        /\ loadState(last.pre, slots[i].name, last.sessionId) > 0
        /\ ~Marked(files, slots[i].name, last.sessionId)

----------------------------------------------------------------------------------------------------------------------------------------
(* Calls that name what is not in the registry, inherited names included   *)

ObjNames == CallNames \cup PrototypeNames

ObjContexts == {Context("c", FALSE, "", 0), Context("c", TRUE, "c", MaxDepth)}

InitObj ==
    /\ slots \in Registries
    /\ files = NoFiles
    /\ last = NoCall

NextObj ==
    \/ \E n \in ObjNames, c \in ObjContexts : GetSlotStatus(n, c)
    \/ \E n \in ObjNames, c \in ObjContexts : CheckSlot(n, c)
    \/ \E c \in ObjContexts : CheckAllSlots(c)
    \/ \E n \in ObjNames, c \in ObjContexts : ResetSlot(n, c)
    \/ \E n \in ObjNames, c \in ObjContexts : ClearSlot(n, c)
    \/ \E c \in ObjContexts : SessionStart(c)
    \/ Return

SpecObj == InitObj /\ [][NextObj]_vars

----------------
(* C12: operations on an unregistered slot name are inert: checkSlot       *)
(* returns triggered = false, diceCount = 0 and no rolls, getSlotStatus    *)
(* returns null, and checkSlot, resetSlot and clearSlot leave every state  *)
(* record and cooldown marker unchanged (none is created).                 *)

\* the last call named a slot that is not registered
OnUnregistered ==
    /\ last.op \in {"getSlotStatus", "checkSlot", "resetSlot", "clearSlot"}
    /\ ~IsRegistered(last.name)

C12_UnregisteredInert ==
    OnUnregistered =>
        /\ last.op = "checkSlot" =>
              /\ Len(last.results) = 1
              /\ ~last.results[1].triggered
              /\ last.results[1].diceCount = 0
              /\ last.results[1].rolls = <<>>
        /\ last.op = "getSlotStatus" => last.status = <<>>
        /\ last.op \in {"checkSlot", "resetSlot", "clearSlot"} => files = last.pre

----------------------------------------------------------------------------
(* The registry: registerSlot and unregisterSlot                           *)

\* at most MaxSlots entries are registered
MaxSlots == 2

\* slot names given to the registry: plain ones, names every object
\* inherits, the prototype key, and names the validation is to refuse
RegNames == {"a", "b", "toString", ProtoKey, "", "../sneaky", ".hidden"}

\* a registration that supplies the required fields only
MinimalConfig(name) == [name |-> name, die |-> 20, target |-> 20]

\* a registration that supplies every field, a depth provider included
CustomConfig(name) ==
    [name |-> name, die |-> 6, target |-> 1, targetMode |-> "lte", type |-> "fixed",
     accumulationRate |-> 3, maxDice |-> 4, fixedCount |-> 2, cooldown |-> "none",
     clearOnSessionStart |-> FALSE, resetOnTrigger |-> FALSE, depthProvider |-> "function"]

RegConfigs == {MinimalConfig(n) : n \in RegNames} \cup {CustomConfig(n) : n \in RegNames}

\* the registry calls take no context
NoContext == Context("", FALSE, "", 0)

RegisterSlot(config) ==
    LET out == registerSlot(slots, config)
    IN  /\ Idle
        /\ Len(slots) < MaxSlots \/ IsRegistered(config.name)
        /\ slots' = out.slots
        /\ last' = Call("registerSlot", config.name, NoContext,
                        <<[returned |-> out.returned]>>, <<config>>, <<>>)
        /\ UNCHANGED files

UnregisterSlot(name) ==
    LET out == unregisterSlot(slots, name)
    IN  /\ Idle
        /\ slots' = out.slots
        /\ last' = Call("unregisterSlot", name, NoContext,
                        <<[returned |-> out.returned]>>, <<>>, <<>>)
        /\ UNCHANGED files

InitReg ==
    /\ slots = <<>>
    /\ files = NoFiles
    /\ last = NoCall

NextReg ==
    \/ \E config \in RegConfigs : RegisterSlot(config)
    \/ \E name \in RegNames : UnregisterSlot(name)
    \/ Return

SpecReg == InitReg /\ [][NextReg]_vars

----------------------------------------------------------------------------
(* C13: registerSlot upserts by name: each name occurs at most once in the *)
(* registry, registering a new name adds its entry, re-registering an      *)
(* existing name replaces that entry without changing the number of        *)
(* entries or any other entry, every field not supplied takes its default  *)
(* (targetMode exact, type accumulator, accumulationRate 7, maxDice 100,   *)
(* fixedCount 1, cooldown per-session, clearOnSessionStart true,           *)
(* resetOnTrigger true), and the stored entry never holds the custom depth *)
(* provider.                                                               *)

DocumentedDefaults ==
    [targetMode |-> "exact", type |-> "accumulator", accumulationRate |-> 7,
     maxDice |-> 100, fixedCount |-> 1, cooldown |-> "per-session",
     clearOnSessionStart |-> TRUE, resetOnTrigger |-> TRUE]

\* entry is what a registration of config is to store
StoresConfig(entry, config) ==
    /\ "depthProvider" \notin DOMAIN entry
    /\ entry.name = config.name /\ entry.die = config.die /\ entry.target = config.target
    /\ \A k \in DOMAIN DocumentedDefaults :
          entry[k] = IF k \in DOMAIN config THEN config[k] ELSE DocumentedDefaults[k]

\* reg2 is reg with the entry of config put in place of, or added as, the
\* entry of that name
Upserted(reg, reg2, config) ==
    /\ \A i, j \in DOMAIN reg2 : reg2[i].name = reg2[j].name => i = j
    /\ \E i \in DOMAIN reg2 : reg2[i].name = config.name /\ StoresConfig(reg2[i], config)
    /\ IF \E i \in DOMAIN reg : reg[i].name = config.name
       THEN /\ Len(reg2) = Len(reg)
            /\ \A i \in DOMAIN reg : reg[i].name # config.name => reg2[i] = reg[i]
       ELSE /\ Len(reg2) = Len(reg) + 1
            /\ \A i \in DOMAIN reg : reg2[i] = reg[i]

C13_RegisterUpserts ==
    [][last'.op = "registerSlot" => Upserted(slots, slots', last'.status[1])]_vars

----------------------------------------------------------------------------
(* C14: unregisterSlot(name) returns true exactly when an entry with that  *)
(* name existed; afterwards getSlot(name) is null and listSlots omits it,  *)
(* all other entries are unchanged, and when it returns false the registry *)
(* is unchanged.                                                           *)

\* reg2 and returned are what unregistering name from reg is to give
Unregistered(reg, reg2, name, returned) ==
    /\ returned = (\E i \in DOMAIN reg : reg[i].name = name)
    /\ LoadedValue(reg2, name) = <<>>
    /\ \A i \in DOMAIN listSlots(reg2) : listSlots(reg2)[i].name # name
    /\ reg2 = SelectSeq(reg, LAMBDA e : e.name # name)
    /\ ~returned => reg2 = reg

C14_UnregisterRemoves ==
    [][last'.op = "unregisterSlot"
         => Unregistered(slots, slots', last'.name, last'.results[1].returned)]_vars

----------------------------------------------------------------------------
(* C15: registering a slot whose name is empty, holds path-traversal       *)
(* characters or is a hidden or relative segment ('../sneaky', '.hidden')  *)
(* is rejected and leaves the registry unchanged, so no such name ever     *)
(* appears in the registry.                                                *)

C15_RegistryNamesValid == \A i \in DOMAIN slots : validateName(slots[i].name)

C15_InvalidRejected ==
    (last'.op = "registerSlot" /\ ~validateName(last'.name)) => slots' = slots

C15_InvalidNamesRejected ==
    /\ []C15_RegistryNamesValid
    /\ [][C15_InvalidRejected]_vars

----------------------------------------------------------------------------
(* The kinds side by side: a fixed, a single and an unrecognized kind      *)

KindsRegistry ==
    <<Registered([name |-> "two", die |-> 2, target |-> 1, targetMode |-> "gte",
                  type |-> "fixed", fixedCount |-> 2]),
      Registered([name |-> "one", die |-> 2, target |-> 2, type |-> "single",
                  cooldown |-> "none"]),
      Registered([name |-> "odd", die |-> 2, target |-> 1, targetMode |-> "gte",
                  type |-> "burst", cooldown |-> "none"])>>

\* the same kinds with a fixed slot of no dice
KindsRegistryNoDice ==
    <<Registered([name |-> "nil", die |-> 2, target |-> 1, targetMode |-> "gte",
                  type |-> "fixed", fixedCount |-> 0, cooldown |-> "none"]),
      Registered([name |-> "one", die |-> 2, target |-> 1, targetMode |-> "lte",
                  type |-> "single"]),
      Registered([name |-> "odd", die |-> 2, target |-> 1, targetMode |-> "gte",
                  type |-> "burst"])>>

InitKinds ==
    /\ slots \in {KindsRegistry, KindsRegistryNoDice}
    /\ files = NoFiles
    /\ last = NoCall

NextKinds == Step(Contexts)

SpecKinds == InitKinds /\ [][NextKinds]_vars

----------------------------------------------------------------------------
(* C16: dice-count resolution is total over the kinds and stateless for    *)
(* non-accumulators: a fixed slot always resolves to fixedCount dice, a    *)
(* single slot always to 1 die, each with depth fields 0, whatever the     *)
(* depth and the persisted state; an unrecognized kind resolves to 0 dice  *)
(* (not triggered, no rolls) instead of failing.                           *)

\* the last call resolved the dice count of the slot: a status of it, or a
\* check of it that its cooldown did not cut short
Resolved(config) ==
    \/ last.op = "getSlotStatus" /\ last.name = config.name
    \/ /\ last.op = "checkSlot" /\ last.name = config.name
       /\ ~(config.cooldown = "per-session" /\ Marked(last.pre, config.name, last.sessionId))
    \/ /\ last.op = "checkAllSlots"
       /\ ~(config.cooldown = "per-session" /\ Marked(last.pre, config.name, last.sessionId))

\* the dice count a kind other than accumulator is to resolve to
StatelessCount(config) ==
    CASE config.type = "fixed" -> config.fixedCount
      [] config.type = "single" -> 1
      [] OTHER -> 0

DepthFieldsZero ==
    last.op = "getSlotStatus" =>
        \A i \in DOMAIN last.status :
            last.status[i].currentDepth = 0 /\ last.status[i].depthSinceTrigger = 0

C16_KindsResolve ==
    \A i \in DOMAIN slots :
        (slots[i].type # "accumulator" /\ Resolved(slots[i])) =>
            /\ Reported(slots[i].name) = {StatelessCount(slots[i])}
            /\ DepthFieldsZero
            /\ (IsCheck /\ slots[i].type \notin {"fixed", "single"}) =>
                  \A n \in ResultsNamed(slots[i].name) :
                      ~last.results[n].triggered /\ last.results[n].rolls = <<>>
            /\ IsCheck =>
                  \A n \in ResultsNamed(slots[i].name) :
                      Len(last.results[n].rolls) = StatelessCount(slots[i])

\* a fixed slot showed its two dice at the greatest depth although its state
\* file held another baseline, and an unrecognized kind was checked
C16_Witness ==
    \/ /\ last.op = "getSlotStatus"
       /\ last.depth = MaxDepth
       /\ \E i \in DOMAIN slots :
            /\ slots[i].type = "fixed"
            /\ last.name = slots[i].name
            /\ BaselineBefore(slots[i].name) = -1
            /\ Reported(slots[i].name) = {2}
    \/ /\ last.op = "checkSlot"
       /\ last.depth = MaxDepth
       /\ \E i \in DOMAIN slots :
            /\ slots[i].type = "burst"
            /\ last.name = slots[i].name
            /\ BaselineBefore(slots[i].name) = -1

----------------------------------------------------------------------------
(* roll.ts called on its own: the pure functions over small inputs         *)

MaxCount == 3
MaxFaces == 3

RollCounts == -1..MaxCount
RollDieSizes == -1..MaxFaces
RollTargets == -1..(MaxFaces + 2)
RollModes == {"exact", "gte", "lte", "never"}

\* the roll sets checkTarget is called on: every outcome of rollDice
RollSets == UNION {rollDice(count, dieSize) : count \in RollCounts, dieSize \in RollDieSizes}

RollCall(op, count, dieSize, target, mode, rolls, hit, probability) ==
    [op |-> op, count |-> count, dieSize |-> dieSize, target |-> target,
     mode |-> mode, rolls |-> rolls, hit |-> hit, probability |-> probability]

RollDice(count, dieSize) ==
    /\ \E rolls \in rollDice(count, dieSize) :
            last' = RollCall("rollDice", count, dieSize, 0, "", rolls, FALSE, 0)
    /\ UNCHANGED <<slots, files>>

CheckTarget(rolls, target, mode) ==
    /\ last' = RollCall("checkTarget", 0, 0, target, mode, rolls,
                        checkTarget(rolls, target, mode), 0)
    /\ UNCHANGED <<slots, files>>

CalculateProbability(count, dieSize, target, mode) ==
    /\ last' = RollCall("calculateProbability", count, dieSize, target, mode, <<>>,
                        FALSE, calculateProbability(count, dieSize, target, mode))
    /\ UNCHANGED <<slots, files>>

InitRoll ==
    /\ slots = <<>>
    /\ files = NoFiles
    /\ last = RollCall("none", 0, 0, 0, "", <<>>, FALSE, 0)

NextRoll ==
    \/ \E count \in RollCounts, dieSize \in RollDieSizes : RollDice(count, dieSize)
    \/ \E rolls \in RollSets, target \in RollTargets, mode \in RollModes :
            CheckTarget(rolls, target, mode)
    \/ \E count \in RollCounts, dieSize \in RollDieSizes,
          target \in RollTargets, mode \in RollModes :
            CalculateProbability(count, dieSize, target, mode)

SpecRoll == InitRoll /\ [][NextRoll]_vars

----------------------------------------------------------------------------
(* C17: checkTarget is false for empty rolls under every mode and target;  *)
(* otherwise it is true exactly when some roll equals the target (exact),  *)
(* some roll is >= the target (gte) or some roll is <= the target (lte).   *)

Faces(rolls) == {rolls[i] : i \in DOMAIN rolls}

Hit(rolls, target, mode) ==
    \/ mode = "exact" /\ target \in Faces(rolls)
    \/ mode = "gte" /\ \E face \in Faces(rolls) : face >= target
    \/ mode = "lte" /\ \E face \in Faces(rolls) : face <= target

C17_CheckTarget ==
    last.op = "checkTarget" =>
        /\ last.rolls = <<>> => ~last.hit
        /\ (last.rolls # <<>> /\ last.mode \in {"exact", "gte", "lte"}) =>
              (last.hit <=> Hit(last.rolls, last.target, last.mode))

\* a hit on a later roll only: the first roll misses the target
C17_Witness ==
    /\ last.op = "checkTarget"
    /\ Len(last.rolls) = MaxCount
    /\ last.mode = "exact"
    /\ last.rolls[1] # last.target
    /\ last.hit

----------------------------------------------------------------------------
(* C18: rollDice(count, dieSize) returns exactly count values, each an     *)
(* integer in [1, dieSize], when count > 0 and dieSize > 0, and the empty  *)
(* sequence when count <= 0 or dieSize <= 0.                               *)

C18_RollDice ==
    last.op = "rollDice" =>
        IF last.count > 0 /\ last.dieSize > 0
        THEN /\ Len(last.rolls) = last.count
             /\ \A i \in DOMAIN last.rolls :
                    last.rolls[i] \in Int /\ 1 <= last.rolls[i] /\ last.rolls[i] <= last.dieSize
        ELSE last.rolls = <<>>

\* the most dice of the most faces rolled all different values
C18_Witness ==
    /\ last.op = "rollDice"
    /\ last.count = MaxCount
    /\ last.dieSize = MaxFaces
    /\ Faces(last.rolls) = 1..MaxFaces

----------------------------------------------------------------------------
(* C19: calculateProbability returns a percentage in [0, 100] for every    *)
(* integer count, dieSize and target and every mode, targets below 1 or    *)
(* above dieSize included, and 0 whenever count <= 0 or dieSize <= 0.      *)

\* 100 percent in the hundredths calculateProbability is modelled in
Hundred == 10000

C19_ProbabilityInRange ==
    last.op = "calculateProbability" =>
        /\ 0 <= last.probability /\ last.probability <= Hundred
        /\ (last.count <= 0 \/ last.dieSize <= 0) => last.probability = 0

----------------------------------------------------------------------------
(* Persisted data that is missing or does not parse                        *)

\* a state file whose text is not JSON
UnparsableState == [kind |-> "garbage", depth |-> 0]

CorruptNames == {AccSlot.name, "ghost"}

InitCorrupt ==
    /\ slots \in {UnparsableRegistry, <<AccSlot>>}
    /\ files \in {NoFiles, WriteFile(NoFiles, getStateFile(AccSlot.name, EnvSessionId),
                                     UnparsableState)}
    /\ last = NoCall

NextCorrupt ==
    \/ \E n \in CorruptNames, c \in Contexts : GetSlotStatus(n, c)
    \/ \E n \in CorruptNames, c \in Contexts : CheckSlot(n, c)
    \/ \E c \in Contexts : CheckAllSlots(c)
    \/ \E n \in CorruptNames, c \in Contexts : ResetSlot(n, c)
    \/ \E n \in CorruptNames, c \in Contexts : ClearSlot(n, c)
    \/ \E c \in Contexts : SessionStart(c)
    \/ Return

SpecCorrupt == InitCorrupt /\ [][NextCorrupt]_vars

----------------------------------------------------------------------------
(* C20: missing or unparsable persisted data never raises from the engine: *)
(* loadState on an absent or corrupt record yields the default baseline    *)
(* depthAtLastTrigger = 0, an absent marker means not cooled down, and a   *)
(* corrupt registry is treated as empty, so checkAllSlots returns no       *)
(* results and checkSlot returns the inert outcome.                        *)

\* the state record the last call found was absent or did not parse
NoStateBefore(name) ==
    \/ getStateFile(name, last.sessionId) \notin DOMAIN last.pre
    \/ last.pre[getStateFile(name, last.sessionId)] = UnparsableState

\* the call counted from the default baseline 0 and was not cooled down
C20_DefaultBaseline ==
    \A i \in DOMAIN slots :
        ( /\ ParsesAsRegistry(slots)
          /\ last.op \in {"getSlotStatus", "checkSlot"}
          /\ last.name = slots[i].name
          /\ NoStateBefore(slots[i].name)
          /\ ~Marked(last.pre, slots[i].name, last.sessionId) ) =>
            /\ Reported(slots[i].name) # {}
            /\ \A k \in Reported(slots[i].name) :
                  IsCappedQuotient(k, last.depth, slots[i].accumulationRate, slots[i].maxDice)

\* a registry that does not parse is an empty one
C20_CorruptRegistryEmpty ==
    ~ParsesAsRegistry(slots) =>
        /\ last.op = "checkAllSlots" => last.results = <<>>
        /\ last.op = "checkSlot" => last.results = <<InertResult(last.name)>>
        /\ last.op = "getSlotStatus" => last.status = <<>>
        /\ last.op = "sessionStart" => last.cleared = <<>>
        /\ last.op # "none" => files = last.pre

C20_MissingDataDefaults == C20_DefaultBaseline /\ C20_CorruptRegistryEmpty

\* a check found a state file that does not parse and rolled the dice of the
\* whole depth
C20_Witness ==
    /\ last.op = "checkSlot"
    /\ last.name = AccSlot.name
    /\ ParsesAsRegistry(slots)
    /\ getStateFile(AccSlot.name, last.sessionId) \in DOMAIN last.pre
    /\ last.pre[getStateFile(AccSlot.name, last.sessionId)] = UnparsableState
    /\ last.depth = MaxDepth
    /\ Reported(AccSlot.name) = {AccSlot.maxDice}

----------------------------------------------------------------------------
(* C21: resetSlot on a registered slot sets the persisted baseline of      *)
(* (slot, session) to the current depth when a depth signal is available   *)
(* and to the sentinel -1 otherwise, and does not touch the cooldown       *)
(* marker; a status query at the same depth right after a reset with depth *)
(* reports 0 dice.                                                         *)

MarkerFiles(f) ==
    {k \in DOMAIN f : \E i \in DOMAIN slots, s \in SessionIds :
                          k = getMarkerFile(slots[i].name, s)}

C21_ResetSetsBaseline ==
    (last.op = "resetSlot" /\ IsRegistered(last.name)) =>
        /\ OnDisk(files, last.name, last.sessionId).state
              = <<StateContent(IF last.hasTranscript THEN last.depth ELSE -1)>>
        /\ MarkerFiles(files) = MarkerFiles(last.pre)
        /\ (last.hasTranscript /\ ConfigOf(last.name).type = "accumulator") =>
              getSlotStatus(files, last.name, LastContext).status[1].diceCount = 0

\* a marked accumulator with dice to roll was reset at the greatest depth
C21_Witness ==
    /\ last.op = "resetSlot"
    /\ IsRegistered(last.name)
    /\ ConfigOf(last.name).type = "accumulator"
    /\ last.hasTranscript
    /\ last.depth = MaxDepth
    /\ Marked(files, last.name, last.sessionId)
    /\ getSlotStatus(last.pre, last.name, LastContext).status[1].diceCount > 0

----------------------------------------------------------------------------
(* C22: clearSlot on a registered slot forces the baseline to 0 and        *)
(* removes the cooldown marker if present, from any prior state including  *)
(* the sentinel; it is idempotent, and a later status query at depth d     *)
(* reports min(floor(d / accumulationRate), maxDice) dice.                 *)

\* the dice a status query of the slot at depth d reports now
StatusDice(name, d) ==
    getSlotStatus(files, name, Context(last.sessionId, TRUE, last.sessionId, d)).status[1].diceCount

----------------------------------------------------------------------------
(* bin/cc-dice.ts and hooks/stop.ts: the commands built on the engine      *)

\* cc-dice roll <name>: the files left and what is printed, <<>> for
\* "0 dice (no roll)" and for "Slot not found"
rollCommand(f, name, ctx) ==
    IF getSlot(name) = <<>> THEN {[files |-> f, results |-> <<>>]}
    ELSE
    LET config == getSlot(name)[1]
        out == getSlotStatus(f, name, ctx)
        diceCount == out.status[1].diceCount
    IN  IF diceCount <= 0 THEN {[files |-> out.files, results |-> <<>>]}
        ELSE {[files |-> out.files, results |-> <<DiceResult(config, rolls, diceCount)>>]
              : rolls \in rollDice(diceCount, config.die)}

\* the loop of the stop hook and of cc-dice check over the configs cfgs:
\* checkSlot for each in turn, process.exit(2) at the first trigger
RECURSIVE checkEach(_, _, _)
checkEach(cfgs, f, ctx) ==
    IF cfgs = <<>> THEN {[files |-> f, results |-> <<>>, exit |-> 0]}
    ELSE UNION {
        IF out.result.triggered
        THEN {[files |-> out.files, results |-> <<out.result>>, exit |-> 2]}
        ELSE {[files |-> rest.files, results |-> <<out.result>> \o rest.results,
               exit |-> rest.exit]
              : rest \in checkEach(Tail(cfgs), out.files, ctx)}
        : out \in checkSlot(f, Head(cfgs).name, ctx)}

\* hooks/stop.ts main()
stopHook(f, ctx) == checkEach(listSlots(slots), f, ctx)

\* cc-dice check
checkCommand(f, ctx) == checkEach(listSlots(slots), f, ctx)

RollCommand(name, ctx) ==
    /\ Idle
    /\ \E out \in rollCommand(files, name, ctx) :
        /\ files' = out.files
        /\ last' = Call("roll", name, ctx, out.results, <<>>, <<>>)
        /\ UNCHANGED slots

StopHook(ctx) ==
    /\ Idle
    /\ \E out \in stopHook(files, ctx) :
        /\ files' = out.files
        /\ last' = Call("stopHook", "", ctx, out.results, <<[exit |-> out.exit]>>, <<>>)
        /\ UNCHANGED slots

CheckCommand(ctx) ==
    /\ Idle
    /\ \E out \in checkCommand(files, ctx) :
        /\ files' = out.files
        /\ last' = Call("check", "", ctx, out.results, <<[exit |-> out.exit]>>, <<>>)
        /\ UNCHANGED slots

\* registries with a slot that fires at once ahead of another slot
CliRegistries == Registries \cup {<<KeepSlot, AccSlot>>, <<SoloSlot, KeepSlot>>}

InitCli ==
    /\ slots \in CliRegistries
    /\ files = NoFiles
    /\ last = NoCall

NextCli ==
    \/ \E n \in CallNames, c \in Contexts : RollCommand(n, c)
    \/ \E c \in Contexts : StopHook(c)
    \/ \E c \in Contexts : CheckCommand(c)
    \/ \E n \in CallNames, c \in Contexts : GetSlotStatus(n, c)
    \/ \E n \in CallNames, c \in Contexts : ResetSlot(n, c)
    \/ \E n \in CallNames, c \in Contexts : ClearSlot(n, c)
    \/ \E c \in Contexts : SessionStart(c)
    \/ Return

SpecCli == InitCli /\ [][NextCli]_vars

----------------------------------------------------------------------------
(* C23: the CLI roll command is a dry run: for every slot kind and every   *)
(* prior persisted state, the -1 sentinel included, running it leaves the  *)
(* accumulator state and the cooldown marker of every (slot, session)      *)
(* unchanged.                                                              *)

C23_RollIsDryRun ==
    last.op = "roll" =>
        \A i \in DOMAIN slots, s \in SessionIds :
            OnDisk(files, slots[i].name, s) = OnDisk(last.pre, slots[i].name, s)

----------------------------------------------------------------------------
(* C24: on every stop event the stop hook rolls all registered slots: each *)
(* registered slot that is not cooled down is evaluated in that event, and *)
(* a trigger of one slot does not prevent the remaining slots from being   *)
(* evaluated.                                                              *)

C24_StopHookEvaluatesAll ==
    last.op = "stopHook" =>
        \A i \in DOMAIN slots :
            ~WasCooled(slots[i]) => ResultsNamed(slots[i].name) # {}

----------------------------------------------------------------------------
(* Two checkSlot passes in flight at once: every await on the file system  *)
(* is a point where the other pass can run                                 *)

\* a pass of checkSlot(name, ctx) before its first step
Pass(name, ctx) ==
    [name |-> name, ctx |-> ctx, pc |-> "cooldown", diceCount |-> 0,
     result |-> InertResult(name)]

PassDone(p) == [p EXCEPT !.pc = "done"]

\* where a pass goes once its rolls are in
AfterRoll(p, config, res) ==
    [p EXCEPT !.result = res,
              !.pc = IF ~res.triggered THEN "done"
                     ELSE IF config.resetOnTrigger /\ config.type = "accumulator" THEN "reset"
                     ELSE IF config.cooldown = "per-session" THEN "mark"
                     ELSE "done"]

\* one step of pass p on files f: the possible [pass, files] after it
PassStep(p, f) ==
    IF getSlot(p.name) = <<>> THEN {[pass |-> PassDone(p), files |-> f]}
    ELSE
    LET config == getSlot(p.name)[1]
        sessionId == resolveSessionId(p.ctx)
    IN  CASE p.pc = "cooldown" ->
                IF config.cooldown = "per-session" /\ hasCooldown(f, p.name, sessionId)
                THEN {[pass |-> PassDone(p), files |-> f]}
                ELSE IF config.type = "accumulator"
                THEN {[pass |-> [p EXCEPT !.pc = "load"], files |-> f]}
                ELSE {[pass |-> [p EXCEPT !.pc = "roll",
                                          !.diceCount = getDiceCount(f, config, sessionId,
                                                                     p.ctx).diceCount],
                       files |-> f]}
          [] p.pc = "load" ->
                IF loadState(f, p.name, sessionId) < 0
                THEN {[pass |-> [p EXCEPT !.pc = "calibrate"], files |-> f]}
                ELSE {[pass |-> [p EXCEPT !.pc = "roll",
                                          !.diceCount = getAccumulatorDiceCount(f, config,
                                                            sessionId, p.ctx).diceCount],
                       files |-> f]}
          [] p.pc = "calibrate" ->
                {[pass |-> [p EXCEPT !.pc = "roll",
                                     !.diceCount = Min(0 \div config.accumulationRate,
                                                       config.maxDice)],
                  files |-> saveState(f, p.name, sessionId, TriggerDepth(p.ctx))]}
          [] p.pc = "roll" ->
                IF p.diceCount <= 0 THEN {[pass |-> PassDone(p), files |-> f]}
                ELSE {[pass |-> AfterRoll(p, config, DiceResult(config, rolls, p.diceCount)),
                       files |-> f]
                      : rolls \in rollDice(p.diceCount, config.die)}
          [] p.pc = "reset" ->
                {[pass |-> [p EXCEPT !.pc = IF config.cooldown = "per-session"
                                            THEN "mark" ELSE "done"],
                  files |-> resetState(f, p.name, sessionId, TriggerDepth(p.ctx))]}
          [] p.pc = "mark" ->
                {[pass |-> PassDone(p), files |-> markTriggered(f, p.name, sessionId)]}

InPasses == last.op = "passes"

\* two passes for different sessions or for different slots start together
StartPasses(n1, c1, n2, c2) ==
    /\ Idle
    /\ n1 # n2 \/ resolveSessionId(c1) # resolveSessionId(c2)
    /\ last' = [op |-> "passes", pre |-> files, passes |-> <<Pass(n1, c1), Pass(n2, c2)>>]
    /\ UNCHANGED <<slots, files>>

StepPass(i) ==
    /\ InPasses
    /\ last.passes[i].pc # "done"
    /\ \E out \in PassStep(last.passes[i], files) :
        /\ files' = out.files
        /\ last' = [last EXCEPT !.passes[i] = out.pass]
    /\ UNCHANGED slots

PassesDone == InPasses /\ \A i \in DOMAIN last.passes : last.passes[i].pc = "done"

FinishPasses ==
    /\ PassesDone
    /\ last' = NoCall
    /\ UNCHANGED <<slots, files>>

\* a call made while no pass is in flight has returned
ReturnCall ==
    /\ ~InPasses
    /\ Return

ConcNames == {"a", "a-b", "b"}

InitConc ==
    /\ slots \in IsoRegistries
    /\ files = NoFiles
    /\ last = NoCall

\* the passes run at the greatest depth; a reset without a transcript leaves
\* the sentinel for them to find
ConcContexts == {Context(s, TRUE, s, MaxDepth) : s \in IsoSessions}

ResetContexts == {Context(s, FALSE, "", 0) : s \in IsoSessions}

NextConc ==
    \/ \E n1, n2 \in CallNames \cap ConcNames, c1, c2 \in ConcContexts :
            StartPasses(n1, c1, n2, c2)
    \/ \E i \in {1, 2} : StepPass(i)
    \/ FinishPasses
    \/ \E n \in CallNames \cap ConcNames, c \in ResetContexts : ResetSlot(n, c)
    \/ ReturnCall

SpecConc == InitConc /\ [][NextConc]_vars

----------------------------------------------------------------------------
(* C25: evaluation passes for different sessions (or for different slots)  *)
(* that run concurrently are independent: for every interleaving of their  *)
(* reads and writes, the final persisted state and cooldown markers and    *)
(* each pass's results are the same as for some sequential execution of    *)
(* the passes.                                                             *)

\* what running pass p and then pass q, each to completion, can leave
Sequential(f, p, q) ==
    UNION {{[files |-> o2.files, first |-> o1.result, second |-> o2.result]
            : o2 \in checkSlot(o1.files, q.name, q.ctx)}
           : o1 \in checkSlot(f, p.name, p.ctx)}

C25_PassesSerializable ==
    PassesDone =>
        LET p == last.passes[1]
            q == last.passes[2]
        IN  \/ [files |-> files, first |-> p.result, second |-> q.result]
                    \in Sequential(last.pre, p, q)
            \/ [files |-> files, first |-> q.result, second |-> p.result]
                    \in Sequential(last.pre, q, p)

----------------------------------------------------------------------------
(* C26: within one session, state is independent per slot: an operation    *)
(* that targets slot X (checkSlot, resetSlot, clearSlot, or X's trigger    *)
(* side effects inside checkAllSlots) never changes the accumulator state  *)
(* or cooldown marker of a different registered slot Y, and a state record *)
(* is never read or overwritten as a cooldown marker or vice versa.        *)

RegisteredNames == {slots[i].name : i \in DOMAIN slots}

SameOnDisk(name) ==
    OnDisk(files, name, last.sessionId) = OnDisk(last.pre, name, last.sessionId)

\* the last call acted on slot Y itself: Y triggered in it, or its sentinel
\* was there to be replaced
ActedOn(Y) ==
    \/ \E n \in ResultsNamed(Y) : last.results[n].triggered
    \/ OnDisk(last.pre, Y, last.sessionId).state = <<StateContent(-1)>>

C26_OtherSlotsUntouched ==
    /\ (last.op \in {"checkSlot", "resetSlot", "clearSlot"} /\ IsRegistered(last.name)) =>
            \A Y \in RegisteredNames \ {last.name} : SameOnDisk(Y)
    /\ last.op = "checkAllSlots" =>
            \A Y \in RegisteredNames : ~ActedOn(Y) => SameOnDisk(Y)

C26_StateIsNoMarker ==
    \A X, Y \in RegisteredNames, s \in IsoSessions : getStateFile(X, s) # getMarkerFile(Y, s)

C26_SlotsIndependent == C26_OtherSlotsUntouched /\ C26_StateIsNoMarker

\* one slot triggered in a checkAllSlots, reset and marked, next to a slot
\* that kept a state and a marker of its own
C26_Witness ==
    /\ last.op = "checkAllSlots"
    /\ \E X, Y \in RegisteredNames :
        /\ X # Y
        /\ \E n \in ResultsNamed(X) : last.results[n].triggered
        /\ ~ActedOn(Y)
        /\ OnDisk(files, X, last.sessionId) # OnDisk(last.pre, X, last.sessionId)
        /\ OnDisk(files, Y, last.sessionId) = [state |-> <<StateContent(MaxDepth)>>, marker |-> TRUE]

----------------------------------------------------------------------------
(* C27: a slot under active per-session cooldown is short-circuited before *)
(* any dice-count resolution in both checkSlot and checkAllSlots: its      *)
(* accumulator state is not modified (a stored -1 sentinel stays -1), no   *)
(* die is drawn on its behalf, and it does not change how the other slots  *)
(* of its die-size group are evaluated (they still roll and can trigger).  *)

\* the last check met slot config under cooldown
CheckedCooled(config) ==
    /\ IsCheck
    /\ last.op = "checkSlot" => last.name = config.name
    /\ WasCooled(config)

\* the slot came out of the last check as out of a check of it alone
AsOnItsOwn(name) ==
    \E o \in checkSlot(last.pre, name, LastContext) :
        /\ \A n \in ResultsNamed(name) : last.results[n] = o.result
        /\ OnDisk(files, name, last.sessionId) = OnDisk(o.files, name, last.sessionId)

C27_CooledShortCircuit ==
    \A i \in DOMAIN slots : CheckedCooled(slots[i]) =>
        /\ SameOnDisk(slots[i].name)
        /\ \A n \in ResultsNamed(slots[i].name) : last.results[n] = InertResult(slots[i].name)
        /\ last.op = "checkAllSlots" =>
              \A j \in DOMAIN slots :
                  (slots[j].die = slots[i].die /\ ~WasCooled(slots[j])) =>
                      /\ Cardinality(ResultsNamed(slots[j].name)) = 1
                      /\ AsOnItsOwn(slots[j].name)

\* a cooled-down slot holding the sentinel was passed over at a depth that
\* would have calibrated it, and the other slot of its group triggered
C27_Witness ==
    /\ last.op = "checkAllSlots"
    /\ last.hasTranscript
    /\ last.depth = MaxDepth
    /\ \E i, j \in DOMAIN slots :
        /\ WasCooled(slots[i])
        /\ OnDisk(files, slots[i].name, last.sessionId).state = <<StateContent(-1)>>
        /\ slots[j].die = slots[i].die
        /\ \E n \in ResultsNamed(slots[j].name) : last.results[n].triggered

----------------------------------------------------------------------------
(* C28: a cooldown marker for (slot, session) comes into existence only as *)
(* the effect of an evaluation in which that slot triggered and its        *)
(* cooldown policy is per-session, and in that case it is always written;  *)
(* a slot with cooldown policy none never gets a marker from any operation *)
(* and can trigger on consecutive evaluations.                             *)

TriggeredIn(name) == IsCheck /\ \E n \in ResultsNamed(name) : last.results[n].triggered

C28_MarkerOnlyFromTrigger ==
    last.op # "none" =>
        \A i \in DOMAIN slots, s \in SessionIds :
            (Marked(files, slots[i].name, s) /\ ~Marked(last.pre, slots[i].name, s)) =>
                /\ s = last.sessionId
                /\ slots[i].cooldown = "per-session"
                /\ TriggeredIn(slots[i].name)

C28_TriggerAlwaysMarks ==
    \A i \in DOMAIN slots :
        (TriggeredIn(slots[i].name) /\ slots[i].cooldown = "per-session") =>
            Marked(files, slots[i].name, last.sessionId)

\* the evaluation one accumulation step later
NextEvaluation(config) ==
    Context(last.sessionId, TRUE, last.sessionId, last.depth + config.accumulationRate)

C28_NoneNeverMarked ==
    \A i \in DOMAIN slots : slots[i].cooldown = "none" =>
        /\ \A s \in SessionIds : ~Marked(files, slots[i].name, s)
        /\ TriggeredIn(slots[i].name) =>
              \E o \in checkSlot(files, slots[i].name, NextEvaluation(slots[i])) :
                  o.result.triggered

----------------------------------------------------------------------------
(* C29: evaluations are read-only unless something fires: getSlotStatus,   *)
(* and any checkSlot / checkAllSlots evaluation in which a slot does not   *)
(* trigger, leave that slot's cooldown marker and accumulator state        *)
(* unchanged, the only exception being the one-time replacement of the -1  *)
(* sentinel by the current depth; repeating such an evaluation at the same *)
(* depth changes nothing further.                                          *)

\* the last call evaluated the slot and the slot did not trigger in it
Quiet(name) ==
    \/ last.op = "getSlotStatus" /\ last.name = name
    \/ last.op = "checkSlot" /\ last.name = name /\ ~TriggeredIn(name)
    \/ last.op = "checkAllSlots" /\ ~TriggeredIn(name)

\* the sentinel of the slot was replaced by the depth of the call, nothing else
Calibrated(name) ==
    /\ OnDisk(last.pre, name, last.sessionId).state = <<StateContent(-1)>>
    /\ OnDisk(files, name, last.sessionId)
          = [state |-> <<StateContent(last.depth)>>,
             marker |-> OnDisk(last.pre, name, last.sessionId).marker]

\* the same evaluation once more, the slot not triggering, leaves the slot as it is
RepeatChangesNothing(name) ==
    /\ last.op = "getSlotStatus" => getSlotStatus(files, name, LastContext).files = files
    /\ last.op = "checkSlot" =>
          \A o \in checkSlot(files, name, LastContext) :
              ~o.result.triggered => o.files = files
    /\ last.op = "checkAllSlots" =>
          \A o \in checkAllSlots(files, LastContext) :
              (\A n \in DOMAIN o.results :
                    o.results[n].slotName = name => ~o.results[n].triggered) =>
                  OnDisk(o.files, name, last.sessionId) = OnDisk(files, name, last.sessionId)

C29_QuietEvaluationReadOnly ==
    \A i \in DOMAIN slots : Quiet(slots[i].name) =>
        /\ SameOnDisk(slots[i].name) \/ Calibrated(slots[i].name)
        /\ RepeatChangesNothing(slots[i].name)

\* a checkAllSlots at the greatest depth replaced the sentinel of a slot that
\* did not trigger, next to a slot that triggered
C29_Witness ==
    /\ last.op = "checkAllSlots"
    /\ last.depth = MaxDepth
    /\ \E i, j \in DOMAIN slots :
        /\ Quiet(slots[i].name)
        /\ Calibrated(slots[i].name)
        /\ TriggeredIn(slots[j].name)

----------------------------------------------------------------------------
(* C30: when a slot triggers and either resetOnTrigger is false or its     *)
(* kind is not accumulator, its persisted accumulator state is left        *)
(* unchanged by the trigger, so an accumulator with resetOnTrigger = false *)
(* and cooldown none keeps the same dice count at the same depth across    *)
(* repeated triggering evaluations.                                        *)

SameStateOnDisk(name) ==
    OnDisk(files, name, last.sessionId).state = OnDisk(last.pre, name, last.sessionId).state

\* the dice counts the slot came out of the last check with
DiceRolled(name) == {last.results[n].diceCount : n \in ResultsNamed(name)}

C30_TriggerWithoutReset ==
    \A i \in DOMAIN slots :
        (TriggeredIn(slots[i].name)
            /\ (~slots[i].resetOnTrigger \/ slots[i].type # "accumulator")) =>
            /\ SameStateOnDisk(slots[i].name)
            /\ (slots[i].type = "accumulator" /\ slots[i].cooldown = "none") =>
                  \A o \in checkSlot(files, slots[i].name, LastContext) :
                      DiceRolled(slots[i].name) = {o.result.diceCount}

\* an accumulator that keeps its state triggered with two dice although its
\* state file holds a baseline older than the depth
C30_Witness ==
    /\ last.op = "checkSlot"
    /\ TriggeredIn(last.name)
    /\ IsRegistered(last.name)
    /\ ConfigOf(last.name).type = "accumulator"
    /\ ~ConfigOf(last.name).resetOnTrigger
    /\ last.depth = MaxDepth
    /\ DiceRolled(last.name) = {2}
    /\ OnDisk(files, last.name, last.sessionId).state = <<StateContent(1)>>

----------------------------------------------------------------------------
(* C31: in checkAllSlots a base roll is drawn for a die-size group exactly *)
(* when at least one active member has diceCount > 0 (at most one base     *)
(* roll per group per invocation); a member with diceCount <= 0 reports    *)
(* triggered = false, empty rolls, best 0 and diceCount 0 and never        *)
(* observes the base roll, even when other members of its group roll.      *)

\* the groups the last checkAllSlots formed
LastGroups ==
    Groups(PreFilter(listSlots(slots), last.pre, last.sessionId, LastContext).active)

\* the member came out with the inert fields
ReportsNoDice(name) ==
    \A n \in ResultsNamed(name) :
        /\ ~last.results[n].triggered
        /\ last.results[n].rolls = <<>>
        /\ last.results[n].best = 0
        /\ last.results[n].diceCount = 0

\* the first rolls of the members of group g that rolled
BaseRollsSeen(g) ==
    {last.results[n].rolls[1] :
        n \in {k \in DOMAIN last.results :
                 /\ \E i \in DOMAIN g.slots : g.slots[i].config.name = last.results[k].slotName
                 /\ last.results[k].rolls # <<>>}}

C31_BaseRollWhenNeeded ==
    last.op = "checkAllSlots" =>
        \A x \in DOMAIN LastGroups :
            LET g == LastGroups[x]
                needed == \E i \in DOMAIN g.slots : g.slots[i].diceCount > 0
            IN  /\ \A d \in PoolDraws(LastGroups) :
                      IF needed THEN d[x].baseRoll \in 1..g.dieSize ELSE d[x].baseRoll = 0
                /\ Cardinality(BaseRollsSeen(g)) = IF needed THEN 1 ELSE 0
                /\ BaseRollsSeen(g) \subseteq 1..g.dieSize
                /\ \A i \in DOMAIN g.slots :
                      g.slots[i].diceCount <= 0 => ReportsNoDice(g.slots[i].config.name)

\* the first member of a group had no dice and the next one rolled and triggered
C31_Witness ==
    /\ last.op = "checkAllSlots"
    /\ \E x \in DOMAIN LastGroups :
        /\ Len(LastGroups[x].slots) >= 2
        /\ LastGroups[x].slots[1].diceCount = 0
        /\ LastGroups[x].slots[2].diceCount > 0
        /\ TriggeredIn(LastGroups[x].slots[2].config.name)

----------------------------------------------------------------------------
(* C32: slots with different die sizes never share a base roll in          *)
(* checkAllSlots: each die-size group draws its own base roll within       *)
(* [1, its die size], and every combination of base-roll values across     *)
(* groups is a possible outcome.                                           *)

\* the base roll the members of group g show in results rs, 0 when none rolled
BaseRollIn(rs, g) ==
    LET seen == {rs[n].rolls[1] :
                    n \in {k \in DOMAIN rs :
                             /\ \E i \in DOMAIN g.slots : g.slots[i].config.name = rs[k].slotName
                             /\ rs[k].rolls # <<>>}}
    IN  IF seen = {} THEN 0 ELSE CHOOSE b \in seen : TRUE

\* the groups of the last checkAllSlots in which somebody rolled
RollingGroups == {x \in DOMAIN LastGroups : anyNeedsDice(LastGroups[x].slots)}

----------------------------------------------------------------------------
(* One slot registered: every kind, and a die size the CLI does not refuse *)

\* cc-dice register nodie --die 0 --type single --cooldown none
NoDieSlot == Registered([name |-> "nodie", die |-> 0, target |-> 1, targetMode |-> "lte",
                         type |-> "single", cooldown |-> "none"])

OneSlotRegistries ==
    {<<AccSlot>>, <<KeepSlot>>, <<RawSlot>>, <<SoloSlot>>, <<NoDieSlot>>,
     <<Registered([name |-> "pair", die |-> 3, target |-> 3, type |-> "fixed",
                   fixedCount |-> 2])>>,
     <<Registered([name |-> "odd", die |-> 2, target |-> 1, type |-> "burst"])>>}

InitOne ==
    /\ slots \in OneSlotRegistries
    /\ files = NoFiles
    /\ last = NoCall

NextOne == Step(Contexts)

SpecOne == InitOne /\ [][NextOne]_vars

----------------------------------------------------------------------------
(* C33: with exactly one slot registered, checkAllSlots is equivalent to   *)
(* checkSlot on that slot: for every slot configuration, prior state and   *)
(* depth, both admit the same set of possible results (triggered, rolls,   *)
(* best, diceCount, probability) and perform the same state and cooldown   *)
(* writes.                                                                 *)

\* the outcomes of checkSlot in the shape of those of checkAllSlots
AsPoolOutcomes(outs) == {[files |-> o.files, results |-> <<o.result>>] : o \in outs}

C33_SingleSlotEquivalence ==
    (Len(slots) = 1 /\ IsCheck /\ last.name \in {"", slots[1].name}) =>
        AsPoolOutcomes(checkSlot(last.pre, slots[1].name, LastContext))
            = checkAllSlots(last.pre, LastContext)


----------------------------------------------------------------------------
(* The probability model against the trigger test                          *)

\* 1 - pMiss^count as a fraction of dieSize^count: its numerator
UnroundedHits(count, dieSize, target, mode) ==
    Pow(dieSize, count) - Pow(MissNumerator(dieSize, target, mode), count)

\* the roll sequences of count dice of dieSize faces that checkTarget accepts
TriggeringRolls(count, dieSize, target, mode) ==
    {rolls \in rollDice(count, dieSize) : checkTarget(rolls, target, mode)}

(* C34: for every count >= 1, dieSize >= 1, integer target and mode, the   *)
(* unrounded value 1 - pMiss^count of calculateProbability is the fraction *)
(* of the dieSize^count equally likely roll sequences that checkTarget     *)
(* accepts.                                                                *)
C34_ProbabilityMatchesTrigger ==
    (/\ last.op = "calculateProbability"
     /\ last.count >= 1 /\ last.dieSize >= 1
     /\ last.mode \in {"exact", "gte", "lte"}) =>
        UnroundedHits(last.count, last.dieSize, last.target, last.mode)
            = Cardinality(TriggeringRolls(last.count, last.dieSize, last.target, last.mode))


----------------------------------------------------------------------------
(* The shape of a reported outcome                                         *)

\* best is the largest element of rolls, 0 for no rolls
IsBestOf(best, rolls) ==
    IF rolls = <<>> THEN best = 0
    ELSE /\ \E i \in DOMAIN rolls : rolls[i] = best
         /\ \A i \in DOMAIN rolls : rolls[i] <= best

WellFormed(r, config) ==
    /\ Len(r.rolls) = r.diceCount
    /\ r.triggered = (\E i \in DOMAIN r.rolls :
                        CASE config.targetMode = "exact" -> r.rolls[i] = config.target
                          [] config.targetMode = "gte"   -> r.rolls[i] >= config.target
                          [] config.targetMode = "lte"   -> r.rolls[i] <= config.target
                          [] OTHER -> FALSE)
    /\ IsBestOf(r.best, r.rolls)
    /\ r.rolls # <<>> => (1 <= r.best /\ r.best <= config.die)
    /\ r.triggered => r.diceCount >= 1
    /\ r.diceCount = 0 => (r.rolls = <<>> /\ ~r.triggered /\ r.probability = 0)

(* C35: every outcome returned by checkSlot and checkAllSlots is well      *)
(* formed: rolls has diceCount elements, triggered is the target test on   *)
(* rolls, best is the maximum of rolls (0 for none) and a face of the die, *)
(* a trigger has at least one die, and no dice means no rolls, no trigger  *)
(* and probability 0.                                                      *)
C35_OutcomesWellFormed ==
    IsCheck =>
        \A i \in DOMAIN last.results :
            getSlot(last.results[i].slotName) # <<>> =>
                WellFormed(last.results[i], ConfigOf(last.results[i].slotName))


----------------------------------------------------------------------------
(* Two checkSlot passes for the same slot and session in flight at once    *)

\* the steps of a pass that write the state file
WritesState(p) == getSlot(p.name) # <<>> /\ p.pc \in {"calibrate", "reset"}

\* two passes for one slot and one session start together
StartRace(n, c1, c2) ==
    /\ Idle
    /\ resolveSessionId(c1) = resolveSessionId(c2)
    /\ last' = [op |-> "passes", pre |-> files, passes |-> <<Pass(n, c1), Pass(n, c2)>>,
                writes |-> <<>>]
    /\ UNCHANGED <<slots, files>>

\* one step of pass i; writes lists the passes in the order they wrote the state file
StepRace(i) ==
    /\ InPasses
    /\ last.passes[i].pc # "done"
    /\ \E out \in PassStep(last.passes[i], files) :
        /\ files' = out.files
        /\ last' = [last EXCEPT !.passes[i] = out.pass,
                                !.writes = IF WritesState(last.passes[i])
                                           THEN Append(@, i) ELSE @]
    /\ UNCHANGED slots

RaceSession == "c"

\* one session, its transcript at every depth
RaceContexts == {Context(RaceSession, TRUE, RaceSession, d) : d \in Depths}

InitRace ==
    /\ slots \in Registries
    /\ files = NoFiles
    /\ last = NoCall

NextRace ==
    \/ \E n \in CallNames, c1, c2 \in RaceContexts : StartRace(n, c1, c2)
    \/ \E i \in {1, 2} : StepRace(i)
    \/ FinishPasses
    \/ \E n \in CallNames : ResetSlot(n, Context(RaceSession, FALSE, "", 0))
    \/ \E n \in CallNames : ClearSlot(n, Context(RaceSession, FALSE, "", 0))
    \/ ReturnCall

SpecRace == InitRace /\ [][NextRace]_vars

\* after both passes the record is the one the last writer wrote, and a trigger
\* of a per-session slot left its marker
C36_FinalRecord ==
    PassesDone =>
        LET name == last.passes[1].name
            sessionId == resolveSessionId(last.passes[1].ctx)
            n == Len(last.writes)
        IN  /\ n = 0 => OnDisk(files, name, sessionId).state
                            = OnDisk(last.pre, name, sessionId).state
            /\ n > 0 => OnDisk(files, name, sessionId).state
                            = <<StateContent(TriggerDepth(last.passes[last.writes[n]].ctx))>>
            /\ \A i \in DOMAIN last.passes :
                    (last.passes[i].result.triggered /\ PerSession(name))
                        => Marked(files, name, sessionId)

\* a calibrating pass saves the record it loaded with the depth replaced: the
\* record it loaded is the one from before the passes, never one a pass wrote
C36_CalibratesOldRecord ==
    \A i \in {1, 2} :
        (/\ InPasses /\ last.passes[i].pc = "load"
         /\ last'.op = "passes" /\ last'.passes[i].pc = "calibrate") =>
            LET name == last.passes[i].name
                sessionId == resolveSessionId(last.passes[i].ctx)
            IN  OnDisk(files, name, sessionId).state = OnDisk(last.pre, name, sessionId).state

(* C36: when two evaluation passes for the same (slot, session) pair       *)
(* overlap, after both complete the persisted accumulator record is        *)
(* exactly the record written by the pass that wrote last (the record from *)
(* before the passes when neither wrote; never a mixture of what the two   *)
(* passes wrote), and the cooldown marker is present if either pass        *)
(* triggered a per-session slot.                                           *)
C36_LastWriterWins == []C36_FinalRecord /\ [][C36_CalibratesOldRecord]_vars

\* both passes wrote records of different depths, the second pass triggered a
\* per-session slot and the first pass wrote last
C36_Witness ==
    /\ PassesDone
    /\ last.passes[1].ctx.depth # last.passes[2].ctx.depth
    /\ \E j \in DOMAIN last.writes : last.writes[j] = 2
    /\ Len(last.writes) > 1 /\ last.writes[Len(last.writes)] = 1
    /\ last.passes[2].result.triggered
    /\ PerSession(last.passes[1].name)


----------------------------------------------------------------------------
(* A checkAllSlots pass with registry calls of other processes in between  *)
(* its awaits                                                              *)

\* a pass that reads the registry again whenever it needs it
PassRegistryReloaded(p) == listSlots(slots)

\* the registry a pass works on: const slots = await listSlotsInternal()
PassRegistry(p) == p.snapshot

InPool == last.op = "pool"

\* checkAllSlots(ctx) starts: the registry is listed
StartPool(ctx) ==
    /\ Idle
    /\ last' = [op |-> "pool", pre |-> files, ctx |-> ctx, snapshot |-> listSlots(slots),
                pc |-> IF Len(listSlots(slots)) = 0 THEN "done" ELSE "filter",
                active |-> <<>>, results |-> <<>>, changed |-> FALSE]
    /\ UNCHANGED <<slots, files>>

\* the loop that sets the cooled slots aside and counts the dice of the others
PoolFilter ==
    /\ InPool
    /\ last.pc = "filter"
    /\ LET pre == PreFilter(PassRegistry(last), files, resolveSessionId(last.ctx), last.ctx)
       IN  /\ files' = pre.files
           /\ last' = [last EXCEPT !.pc = "roll", !.active = pre.active,
                                   !.results = pre.results]
    /\ UNCHANGED slots

\* the loops over the groups and their members
PoolRoll ==
    /\ InPool
    /\ last.pc = "roll"
    /\ LET groups == Groups(last.active)
       IN  \E d \in PoolDraws(groups) :
            LET out == RollGroups(groups, d, files, resolveSessionId(last.ctx), last.ctx)
            IN  /\ files' = out.files
                /\ last' = [last EXCEPT !.pc = "done",
                                        !.results = @ \o out.results]
    /\ UNCHANGED slots

\* another process registers a slot while the pass is in flight
RegisterDuring(config) ==
    /\ InPool
    /\ last.pc # "done"
    /\ Len(slots) <= MaxSlots \/ IsRegistered(config.name)
    /\ slots' = registerSlot(slots, config).slots
    /\ last' = [last EXCEPT !.changed = TRUE]
    /\ UNCHANGED files

\* another process unregisters a slot while the pass is in flight
UnregisterDuring(name) ==
    /\ InPool
    /\ last.pc # "done"
    /\ slots' = unregisterSlot(slots, name).slots
    /\ last' = [last EXCEPT !.changed = TRUE]
    /\ UNCHANGED files

PoolDone == InPool /\ last.pc = "done"

FinishPool ==
    /\ PoolDone
    /\ last' = NoCall
    /\ UNCHANGED <<slots, files>>

\* the names the other processes register and unregister
SnapNames == {AccSlot.name, "late"}

\* a registration that changes every parameter a pass applies
OtherConfig(name) ==
    [name |-> name, die |-> 3, target |-> 1, targetMode |-> "gte", type |-> "fixed",
     fixedCount |-> 2, cooldown |-> "none", resetOnTrigger |-> FALSE]

SnapContexts == {Context(EnvSessionId, TRUE, EnvSessionId, d) : d \in {0, MaxDepth}}

InitSnap ==
    /\ slots \in {<<AccSlot, KeepSlot>>, <<SoloSlot, AccSlot>>}
    /\ files = NoFiles
    /\ last = NoCall

NextSnap ==
    \/ \E c \in SnapContexts : StartPool(c)
    \/ PoolFilter
    \/ PoolRoll
    \/ \E n \in SnapNames : RegisterDuring(OtherConfig(n))
    \/ \E n \in SnapNames : UnregisterDuring(n)
    \/ FinishPool

SpecSnap == InitSnap /\ [][NextSnap]_vars

\* what checkAllSlots(ctx) can leave and report on files f when the registry
\* stays cfgs throughout
FrozenRun(cfgs, f, ctx) ==
    IF cfgs = <<>> THEN {[files |-> f, results |-> <<>>]}
    ELSE
    LET sessionId == resolveSessionId(ctx)
        pre == PreFilter(cfgs, f, sessionId, ctx)
        groups == Groups(pre.active)
    IN  {LET out == RollGroups(groups, d, pre.files, sessionId, ctx)
         IN  [files |-> out.files, results |-> pre.results \o out.results]
         : d \in PoolDraws(groups)}

(* C37: a checkAllSlots pass works on the registry snapshot it loaded at   *)
(* its start: a registerSlot or unregisterSlot that interleaves with the   *)
(* pass changes neither the set of slots the pass reports nor the          *)
(* parameters it applies to any slot; what the pass reports and writes is  *)
(* what it can report and write with the registry left as it was loaded.   *)
C37_PassUsesSnapshot ==
    PoolDone =>
        /\ {last.results[i].slotName : i \in DOMAIN last.results}
                = {last.snapshot[i].name : i \in DOMAIN last.snapshot}
        /\ [files |-> files, results |-> last.results]
                \in FrozenRun(last.snapshot, last.pre, last.ctx)

\* the registry changed during a pass that triggered a slot, and the slot is
\* gone from the registry or registered with other parameters
C37_Witness ==
    /\ PoolDone
    /\ last.changed
    /\ \E i \in DOMAIN last.results, j \in DOMAIN last.snapshot :
        /\ last.results[i].triggered
        /\ last.snapshot[j].name = last.results[i].slotName
        /\ getSlot(last.results[i].slotName) # <<last.snapshot[j]>>
    /\ listSlots(slots) # last.snapshot


----------------------------------------------------------------------------
(* Two registerSlot calls of two processes in flight at once: each loads   *)
(* slots.json, sets its entry and saves the document                       *)

\* a registerSlot(config) call before its loadSlots
Registration(config) == [config |-> config, pc |-> "load", loaded |-> <<>>]

InRegistrations == last.op = "registrations"

\* two consumers call registerSlot for different names at the same time
StartRegistrations(c1, c2) ==
    /\ Idle
    /\ c1.name # c2.name
    /\ last' = [op |-> "registrations", pre |-> slots,
                calls |-> <<Registration(c1), Registration(c2)>>]
    /\ UNCHANGED <<slots, files>>

\* const slots = await loadSlots()
LoadRegistry(i) ==
    /\ InRegistrations
    /\ last.calls[i].pc = "load"
    /\ last' = [last EXCEPT !.calls[i].pc = "save", !.calls[i].loaded = loadSlots(slots)]
    /\ UNCHANGED <<slots, files>>

\* slots[fullConfig.name] = serializable; await saveSlots(slots)
SaveRegistry(i) ==
    /\ InRegistrations
    /\ last.calls[i].pc = "save"
    /\ slots' = registerSlot(last.calls[i].loaded, last.calls[i].config).slots
    /\ last' = [last EXCEPT !.calls[i].pc = "done"]
    /\ UNCHANGED files

RegistrationsDone == InRegistrations /\ \A i \in DOMAIN last.calls : last.calls[i].pc = "done"

FinishRegistrations ==
    /\ RegistrationsDone
    /\ last' = NoCall
    /\ UNCHANGED <<slots, files>>

\* the names the consumers register
ConsumerNames == {"a", "b", "late"}

ConsumerConfigs ==
    {MinimalConfig(n) : n \in ConsumerNames} \cup {CustomConfig(n) : n \in ConsumerNames}

InitConsumers ==
    /\ slots = <<>>
    /\ files = NoFiles
    /\ last = NoCall

NextConsumers ==
    \/ \E c1, c2 \in ConsumerConfigs : StartRegistrations(c1, c2)
    \/ \E i \in {1, 2} : LoadRegistry(i)
    \/ \E i \in {1, 2} : SaveRegistry(i)
    \/ FinishRegistrations
    \/ \E n \in ConsumerNames : UnregisterSlot(n)
    \/ ~InRegistrations /\ Return

SpecConsumers == InitConsumers /\ [][NextConsumers]_vars

(* C38: independent consumers can register slots without losing each       *)
(* other's entries: when two registerSlot calls for different names        *)
(* overlap, both entries are present in the registry after both calls      *)
(* complete.                                                               *)
C38_BothRegistered ==
    RegistrationsDone =>
        \A i \in DOMAIN last.calls :
            getSlot(last.calls[i].config.name) = <<Registered(last.calls[i].config)>>

====
